---- MODULE Spec2Model ----
(***************************************************************************)
(* Valuation-risk engine of portfolio-manager (src/utils/valuationRisk.ts, *)
(* kept here as src/unnamed/part_000), the cash allocation calculator and  *)
(* asset classifier of src/src/utils/cashAnalysis.ts, fetchSentiment of    *)
(* src/src/services/sentimentApi.ts and the fetch guard of useMarketData   *)
(* in src/src/hooks/useMarketData.ts.                                      *)
(*                                                                         *)
(* JavaScript numbers are modelled as exact rationals [n |-> .., d |-> ..] *)
(* in lowest terms with d > 0.  An optional field of an input record is a  *)
(* sequence: <<>> when the field is undefined, <<v>> when it carries v.    *)
(* The `reason` of a MetricAnalysis is the text of the bucket reached,     *)
(* without the interpolated number.                                        *)
(***************************************************************************)
EXTENDS Integers, Sequences, FiniteSets, TLC

\* op:  the function called
\* arg: its argument record
\* pc:  "call" before the function has run, "return" after it, "refreshed"
\*      after a refresh has run it again
\* ret: what the function returned, once pc # "call"
\* clock:         Date.now(), in milliseconds
\* cache:         the localStorage entry of the symbol's sentiment
\* isFetchingRef: isFetchingRef.current of useMarketData
\* lastFetchRef:  lastFetchRef.current of useMarketData
\* requests:      the requests sent to the network, each with its outcome
VARIABLES op, arg, pc, ret, clock, cache, isFetchingRef, lastFetchRef, requests

vars == <<op, arg, pc, ret, clock, cache, isFetchingRef, lastFetchRef, requests>>

\* the state the pure functions neither read nor write
host == <<clock, cache, isFetchingRef, lastFetchRef, requests>>

(***************************************************************************)
(* Bounds of the input domains the specifications enumerate.               *)
(***************************************************************************)
\* mvrv ranges over -5/10 .. MaxMvrvTenths/10 in steps of 1/10
MaxMvrvTenths == 60
\* nvt ranges over 0 .. 5*MaxNvtFifths in steps of 5
MaxNvtFifths == 26
\* prices range over 0 .. 10*MaxPriceTens in steps of 10
MaxPriceTens == 36
\* scores handed to getValuationRiskLevel and generateRecommendation range
\* over 0 .. MaxScoreCents/100 in steps of 1/100
MaxScoreCents == 100
\* driver lists handed to generateRecommendation have at most this length
MaxDrivers == 3
\* calculateValuationRisk inputs supply at most this many indicators
MaxSupplied == 2
\* the latest clock reading of a later call, in milliseconds after the first
MaxClock == 1

(***************************************************************************)
(* Numbers                                                                 *)
(***************************************************************************)
Abs(x) == IF x < 0 THEN -x ELSE x

RECURSIVE GCD(_, _)
GCD(a, b) == IF b = 0 THEN a ELSE GCD(b, a % b)

\* the number n/d (d # 0), in lowest terms
Q(n, d) ==
  LET g == GCD(Abs(n), Abs(d))
      s == IF d < 0 THEN -1 ELSE 1
  IN  [n |-> (s * n) \div g, d |-> (s * d) \div g]

Int2Q(k) == [n |-> k, d |-> 1]

RAdd(a, b) ==
  LET g == GCD(a.d, b.d)
  IN  Q(a.n * (b.d \div g) + b.n * (a.d \div g), (a.d \div g) * b.d)
RNeg(a) == [n |-> -a.n, d |-> a.d]
RSub(a, b) == RAdd(a, RNeg(b))
RMul(a, b) ==
  LET g1 == GCD(Abs(a.n), b.d)
      g2 == GCD(Abs(b.n), a.d)
  IN  [n |-> (a.n \div g1) * (b.n \div g2), d |-> (a.d \div g2) * (b.d \div g1)]
RDiv(a, b) == RMul(a, Q(b.d, b.n))
\* a < b and a <= b, by the sign of the numerators over the common denominator
RLt(a, b) == a.n * (b.d \div GCD(a.d, b.d)) < b.n * (a.d \div GCD(a.d, b.d))
RLe(a, b) == a.n * (b.d \div GCD(a.d, b.d)) <= b.n * (a.d \div GCD(a.d, b.d))
RMin(a, b) == IF RLt(b, a) THEN b ELSE a
RMax(a, b) == IF RLt(a, b) THEN b ELSE a
RAbs(a) == [n |-> Abs(a.n), d |-> a.d]
IsZero(a) == a.n = 0

Zero == Int2Q(0)
One == Int2Q(1)
Half == Q(1, 2)
\* a decimal literal written in hundredths
Pct(k) == Q(k, 100)

None == <<>>
Some(v) == <<v>>
IsSome(o) == o # <<>>
Val(o) == o[1]

(***************************************************************************)
(* Weight configurations and category thresholds                           *)
(***************************************************************************)
Timeframes == {"short", "medium", "long"}
Categories == {"core", "major", "growth", "speculative"}

TIMEFRAME_WEIGHTS ==
  [short  |-> [priceVsMa50 |-> Pct(20), exchangeNetflow |-> Pct(15),
               fearGreed |-> Pct(15), kimchiPremium |-> Pct(10),
               activeAddressRatio |-> Pct(10), socialSentiment |-> Pct(15),
               fundingRate |-> Pct(15)],
   medium |-> [mvrv |-> Pct(22), priceVsMa200 |-> Pct(18), nvt |-> Pct(15),
               exchangeNetflow |-> Pct(12), fearGreed |-> Pct(13),
               socialSentiment |-> Pct(10), newsSentiment |-> Pct(10)],
   long   |-> [mvrv |-> Pct(28), nvt |-> Pct(18), cyclePosition |-> Pct(18),
               priceVsMa200 |-> Pct(14), realizedPriceRatio |-> Pct(14),
               socialSentiment |-> Pct(8)]]

\* composite weights that add up to 0.95
COMPOSITE_TIMEFRAME_WEIGHTS_Short ==
  [short |-> Pct(20), medium |-> Pct(35), long |-> Pct(40)]

COMPOSITE_TIMEFRAME_WEIGHTS ==
  [short |-> Pct(20), medium |-> Pct(35), long |-> Pct(45)]

CATEGORY_VALUATION_THRESHOLDS ==
  [core        |-> [mvrvOverbought |-> Q(35, 10), mvrvOversold |-> Q(10, 10),
                    nvtOverbought |-> Int2Q(95), ma200DeviationMax |-> Int2Q(80),
                    betaToBtc |-> Q(10, 10)],
   major       |-> [mvrvOverbought |-> Q(30, 10), mvrvOversold |-> Q(8, 10),
                    nvtOverbought |-> Int2Q(85), ma200DeviationMax |-> Int2Q(100),
                    betaToBtc |-> Q(13, 10)],
   growth      |-> [mvrvOverbought |-> Q(25, 10), mvrvOversold |-> Q(6, 10),
                    nvtOverbought |-> Int2Q(75), ma200DeviationMax |-> Int2Q(120),
                    betaToBtc |-> Q(16, 10)],
   speculative |-> [mvrvOverbought |-> Q(20, 10), mvrvOversold |-> Q(5, 10),
                    nvtOverbought |-> Int2Q(65), ma200DeviationMax |-> Int2Q(150),
                    betaToBtc |-> Q(20, 10)]]

(***************************************************************************)
(* Asset classifier (cashAnalysis.ts)                                      *)
(***************************************************************************)
ASSET_CHARACTERISTICS ==
  [BTC |-> "core", ETH |-> "core", XRP |-> "major", SOL |-> "growth",
   DOGE |-> "speculative", ADA |-> "major", AVAX |-> "growth",
   DOT |-> "growth", MATIC |-> "growth", LINK |-> "major"]

\* characteristics?.category || 'speculative'
\* getAssetCategory falling back to growth
getAssetCategory_GrowthDefault(symbol) ==
  IF symbol \in DOMAIN ASSET_CHARACTERISTICS
    THEN ASSET_CHARACTERISTICS[symbol]
    ELSE "growth"

\* ASSET_CHARACTERISTICS[symbol]?.category || 'speculative'.  A name the
\* object literal inherits (toString, constructor, __proto__) looks up a value
\* without a category, so it falls back like a name that is not there at all.
getAssetCategory(symbol) ==
  IF symbol \in DOMAIN ASSET_CHARACTERISTICS
    THEN ASSET_CHARACTERISTICS[symbol]
    ELSE "speculative"

VOLATILITY_ADJUSTED_THRESHOLDS ==
  [core |-> Q(30, 10), major |-> Q(25, 10), growth |-> Q(20, 10),
   speculative |-> Q(15, 10)]

\* table[key] || fallback, for a table of numbers
LookupOr(table, key, fallback) ==
  IF key \in DOMAIN table /\ ~IsZero(table[key]) THEN table[key] ELSE fallback

\* getVolatilityAdjustedThreshold looking the symbol up instead of its category
getVolatilityAdjustedThreshold_BySymbol(symbol) ==
  LookupOr(VOLATILITY_ADJUSTED_THRESHOLDS, symbol, Int2Q(2))

getVolatilityAdjustedThreshold(symbol) ==
  LookupOr(VOLATILITY_ADJUSTED_THRESHOLDS, getAssetCategory(symbol), Int2Q(2))

(***************************************************************************)
(* Utility functions                                                       *)
(***************************************************************************)
\* getValuationRiskLevel with <= in place of <
getValuationRiskLevel_Inclusive(score) ==
  IF RLe(score, Pct(20)) THEN "UNDERVALUED"
  ELSE IF RLe(score, Pct(40)) THEN "FAIR_VALUE"
  ELSE IF RLe(score, Pct(60)) THEN "ELEVATED"
  ELSE IF RLe(score, Pct(80)) THEN "OVERVALUED"
  ELSE "EXTREME"

getValuationRiskLevel(score) ==
  IF RLt(score, Pct(20)) THEN "UNDERVALUED"
  ELSE IF RLt(score, Pct(40)) THEN "FAIR_VALUE"
  ELSE IF RLt(score, Pct(60)) THEN "ELEVATED"
  ELSE IF RLt(score, Pct(80)) THEN "OVERVALUED"
  ELSE "EXTREME"

\* clamp01 without Math.min(1, ..)
clamp01_NoUpper(value) == RMax(Zero, value)

clamp01(value) == RMin(One, RMax(Zero, value))

\* the object literal every normalizer returns; weight is the 0 placeholder
MetricAnalysis(name, value, normalizedScore, confidence, reason) ==
  [name |-> name, value |-> value, normalizedScore |-> normalizedScore,
   weight |-> Zero, confidence |-> confidence, reason |-> reason]

\* a return of `normalizedScore: clamp01(normalizedScore)`, for the branch
\* b = <<normalizedScore, reason>> the normalizer took
Clamped(name, value, b, confidence) ==
  MetricAnalysis(name, value, clamp01(b[1]), confidence, b[2])

\* a return of `normalizedScore` as the branch set it
Unclamped(name, value, b, confidence) ==
  MetricAnalysis(name, value, b[1], confidence, b[2])

\* the degraded-input literal of analyzePriceVsMA, analyzeActiveAddressRatio,
\* analyzeCyclePosition and analyzeRealizedPriceRatio
DegradedAnalysis(name) == MetricAnalysis(name, Zero, Half, Zero, "no data")

(***************************************************************************)
(* Sentiment analysis functions                                            *)
(***************************************************************************)
analyzeSocialSentimentValuation(sentiment) ==
  MetricAnalysis("socialSentiment", sentiment,
                 clamp01(RDiv(RAdd(sentiment, Int2Q(100)), Int2Q(200))),
                 One,
                 IF RLe(sentiment, Int2Q(-60)) THEN "extreme fear"
                 ELSE IF RLe(sentiment, Int2Q(-20)) THEN "negative"
                 ELSE IF RLe(sentiment, Int2Q(20)) THEN "neutral"
                 ELSE IF RLe(sentiment, Int2Q(60)) THEN "positive"
                 ELSE "extreme greed")

analyzeNewsSentimentValuation(newsScore) ==
  MetricAnalysis("newsSentiment", newsScore,
                 clamp01(RDiv(RAdd(newsScore, Int2Q(100)), Int2Q(200))),
                 Q(8, 10),
                 IF RLe(newsScore, Int2Q(-50)) THEN "very negative"
                 ELSE IF RLe(newsScore, Int2Q(-20)) THEN "negative"
                 ELSE IF RLe(newsScore, Int2Q(20)) THEN "neutral"
                 ELSE IF RLe(newsScore, Int2Q(50)) THEN "positive"
                 ELSE "very positive")

analyzeFundingRateValuation(fundingRate) ==
  Unclamped("fundingRate", fundingRate,
            IF RLt(fundingRate, Pct(-5)) THEN <<Pct(10), "extreme short">>
            ELSE IF RLt(fundingRate, Zero) THEN <<Pct(30), "bearish">>
            ELSE IF RLt(fundingRate, Pct(3)) THEN <<Pct(50), "normal">>
            ELSE IF RLt(fundingRate, Pct(8)) THEN <<Pct(75), "long overheated">>
            ELSE <<Pct(90), "extreme long">>,
            One)

(***************************************************************************)
(* Individual analysis functions                                           *)
(***************************************************************************)
\* the branches of analyzeMVRVValuation with the 0.6 offset of the fourth
\* branch forgotten
MvrvScore_NoOffset(mvrv, mvrvOversold, mvrvOverbought) ==
  IF RLt(mvrv, mvrvOversold) THEN <<Zero, "extreme undervaluation">>
  ELSE IF RLt(mvrv, Q(15, 10)) THEN
    <<RMul(RDiv(RSub(mvrv, mvrvOversold), RSub(Q(15, 10), mvrvOversold)),
           Pct(30)),
      "undervalued">>
  ELSE IF RLt(mvrv, Q(25, 10)) THEN
    <<RAdd(Pct(30), RMul(RDiv(RSub(mvrv, Q(15, 10)), One), Pct(30))),
      "fair value">>
  ELSE IF RLt(mvrv, mvrvOverbought) THEN
    <<RMul(RDiv(RSub(mvrv, Q(25, 10)), RSub(mvrvOverbought, Q(25, 10))),
           Pct(30)),
      "overvaluation caution">>
  ELSE
    <<RAdd(Pct(90),
           RMin(Pct(10),
                RMul(RDiv(RSub(mvrv, mvrvOverbought), Int2Q(2)), Pct(10)))),
      "extreme overvaluation">>

\* the branches of analyzeMVRVValuation: <<normalizedScore, reason>>
MvrvScore(mvrv, mvrvOversold, mvrvOverbought) ==
  IF RLt(mvrv, mvrvOversold) THEN <<Zero, "extreme undervaluation">>
  ELSE IF RLt(mvrv, Q(15, 10)) THEN
    <<RMul(RDiv(RSub(mvrv, mvrvOversold), RSub(Q(15, 10), mvrvOversold)),
           Pct(30)),
      "undervalued">>
  ELSE IF RLt(mvrv, Q(25, 10)) THEN
    <<RAdd(Pct(30), RMul(RDiv(RSub(mvrv, Q(15, 10)), One), Pct(30))),
      "fair value">>
  ELSE IF RLt(mvrv, mvrvOverbought) THEN
    <<RAdd(Pct(60),
           RMul(RDiv(RSub(mvrv, Q(25, 10)), RSub(mvrvOverbought, Q(25, 10))),
                Pct(30))),
      "overvaluation caution">>
  ELSE
    <<RAdd(Pct(90),
           RMin(Pct(10),
                RMul(RDiv(RSub(mvrv, mvrvOverbought), Int2Q(2)), Pct(10)))),
      "extreme overvaluation">>

analyzeMVRVValuation(mvrv, category) ==
  Clamped("mvrv", mvrv,
          MvrvScore(mvrv, CATEGORY_VALUATION_THRESHOLDS[category].mvrvOversold,
                    CATEGORY_VALUATION_THRESHOLDS[category].mvrvOverbought),
          One)

\* the branches of analyzeNVTValuation: <<normalizedScore, reason>>
NvtScore(nvt, nvtOverbought) ==
  IF RLt(nvt, Int2Q(45)) THEN
    <<RMul(RDiv(nvt, Int2Q(45)), Pct(20)), "undervalued">>
  ELSE IF RLt(nvt, Int2Q(65)) THEN
    <<RAdd(Pct(20), RMul(RDiv(RSub(nvt, Int2Q(45)), Int2Q(20)), Pct(30))),
      "fair value">>
  ELSE IF RLt(nvt, nvtOverbought) THEN
    <<RAdd(Pct(50),
           RMul(RDiv(RSub(nvt, Int2Q(65)), RSub(nvtOverbought, Int2Q(65))),
                Pct(35))),
      "overvaluation caution">>
  ELSE
    <<RAdd(Pct(85),
           RMin(Pct(15),
                RMul(RDiv(RSub(nvt, nvtOverbought), Int2Q(30)), Pct(15)))),
      "extreme overvaluation">>

analyzeNVTValuation(nvt, category) ==
  Clamped("nvt", nvt,
          NvtScore(nvt, CATEGORY_VALUATION_THRESHOLDS[category].nvtOverbought),
          One)

\* the branches of analyzePriceVsMA: <<normalizedScore, reason>>
DeviationScore(deviation, maxDeviation) ==
  IF RLt(deviation, Int2Q(-30)) THEN
    <<RMul(RMax(Zero, RDiv(RAdd(deviation, Int2Q(50)), Int2Q(20))), Pct(10)),
      "extreme undervaluation">>
  ELSE IF RLt(deviation, Int2Q(-10)) THEN
    <<RAdd(Pct(10), RMul(RDiv(RAdd(deviation, Int2Q(30)), Int2Q(20)), Pct(20))),
      "undervalued">>
  ELSE IF RLt(deviation, Int2Q(30)) THEN
    <<RAdd(Pct(30), RMul(RDiv(RAdd(deviation, Int2Q(10)), Int2Q(40)), Pct(30))),
      "fair">>
  ELSE IF RLt(deviation, maxDeviation) THEN
    <<RAdd(Pct(60),
           RMul(RDiv(RSub(deviation, Int2Q(30)), RSub(maxDeviation, Int2Q(30))),
                Pct(30))),
      "overheated">>
  ELSE
    <<RAdd(Pct(90),
           RMin(Pct(10),
                RMul(RDiv(RSub(deviation, maxDeviation), Int2Q(50)), Pct(10)))),
      "extreme overheating">>

\* the part of analyzePriceVsMA behind its ma === 0 guard
PriceVsMAOf(deviation, maType, maxDeviation) ==
  Clamped("priceVsMa" \o maType, deviation,
          DeviationScore(deviation, maxDeviation), One)

\* maType is "50" or "200"
analyzePriceVsMA(currentPrice, ma, maType, category) ==
  IF IsZero(ma) THEN DegradedAnalysis("priceVsMa" \o maType)
  ELSE PriceVsMAOf(RMul(RDiv(RSub(currentPrice, ma), ma), Int2Q(100)), maType,
                   CATEGORY_VALUATION_THRESHOLDS[category].ma200DeviationMax)

analyzeExchangeNetflowValuation(netflow) ==
  Unclamped("exchangeNetflow", netflow,
            IF RLt(netflow, Int2Q(-10000)) THEN <<Pct(10), "large outflow">>
            ELSE IF RLt(netflow, Int2Q(-5000)) THEN <<Pct(25), "outflow">>
            ELSE IF RLt(netflow, Int2Q(5000)) THEN <<Pct(50), "balanced">>
            ELSE IF RLt(netflow, Int2Q(10000)) THEN <<Pct(75), "inflow">>
            ELSE <<Pct(90), "large inflow">>,
            One)

analyzeFearGreedValuation(value) ==
  MetricAnalysis("fearGreed", value, RDiv(value, Int2Q(100)), One,
                 IF RLe(value, Int2Q(25)) THEN "extreme fear"
                 ELSE IF RLe(value, Int2Q(45)) THEN "fear"
                 ELSE IF RLe(value, Int2Q(55)) THEN "neutral"
                 ELSE IF RLe(value, Int2Q(75)) THEN "greed"
                 ELSE "extreme greed")

analyzeKimchiPremiumValuation(premium) ==
  Unclamped("kimchiPremium", premium,
            IF RLt(premium, Int2Q(-2)) THEN <<Pct(10), "reverse premium">>
            ELSE IF RLt(premium, Int2Q(2)) THEN <<Pct(40), "normal">>
            ELSE IF RLt(premium, Int2Q(5)) THEN <<Pct(60), "slightly overheated">>
            ELSE IF RLt(premium, Int2Q(10)) THEN <<Pct(80), "overheated">>
            ELSE <<Pct(95), "extremely overheated">>,
            One)

\* the part of analyzeActiveAddressRatio behind its average30d === 0 guard
ActiveAddressRatioOf(ratio) ==
  Unclamped("activeAddressRatio", ratio,
            IF RLt(ratio, Int2Q(70)) THEN <<Pct(20), "interest falling">>
            ELSE IF RLt(ratio, Int2Q(90)) THEN <<Pct(35), "below average">>
            ELSE IF RLt(ratio, Int2Q(110)) THEN <<Pct(50), "normal">>
            ELSE IF RLt(ratio, Int2Q(130)) THEN <<Pct(65), "interest rising">>
            ELSE <<Pct(80), "surging">>,
            One)

analyzeActiveAddressRatio(current, average30d) ==
  IF IsZero(average30d) THEN DegradedAnalysis("activeAddressRatio")
  ELSE ActiveAddressRatioOf(RMul(RDiv(current, average30d), Int2Q(100)))

\* the guard of analyzeCyclePosition without its cycleLow === 0 test
CyclePositionInvalid_NoLowTest(ath, cycleLow) ==
  IsZero(ath) \/ RLe(ath, cycleLow)

\* ath === 0 || cycleLow === 0 || ath <= cycleLow
CyclePositionInvalid(ath, cycleLow) ==
  IsZero(ath) \/ IsZero(cycleLow) \/ RLe(ath, cycleLow)

\* the part of analyzeCyclePosition behind its guard
CyclePositionOf(positionPercent) ==
  MetricAnalysis("cyclePosition", positionPercent,
                 clamp01(RDiv(positionPercent, Int2Q(100))),
                 Q(8, 10),
                 IF RLt(positionPercent, Int2Q(20)) THEN "early accumulation"
                 ELSE IF RLt(positionPercent, Int2Q(40)) THEN "early rise"
                 ELSE IF RLt(positionPercent, Int2Q(60)) THEN "middle"
                 ELSE IF RLt(positionPercent, Int2Q(80)) THEN "late rise"
                 ELSE "near ATH")

analyzeCyclePosition(currentPrice, ath, cycleLow) ==
  IF CyclePositionInvalid(ath, cycleLow) THEN DegradedAnalysis("cyclePosition")
  ELSE CyclePositionOf(RMul(RDiv(RSub(currentPrice, cycleLow),
                                 RSub(ath, cycleLow)), Int2Q(100)))

\* the part of analyzeRealizedPriceRatio behind its realizedPrice === 0 guard
RealizedPriceRatioOf(ratio) ==
  Unclamped("realizedPriceRatio", ratio,
            IF RLt(ratio, Q(8, 10)) THEN <<Pct(5), "extreme undervaluation">>
            ELSE IF RLt(ratio, One) THEN <<Pct(15), "undervalued">>
            ELSE IF RLt(ratio, Q(15, 10)) THEN <<Pct(35), "fair">>
            ELSE IF RLt(ratio, Q(25, 10)) THEN <<Pct(55), "premium">>
            ELSE IF RLt(ratio, Q(35, 10)) THEN <<Pct(75), "overvalued">>
            ELSE <<Pct(90), "extreme overvaluation">>,
            One)

analyzeRealizedPriceRatio(currentPrice, realizedPrice) ==
  IF IsZero(realizedPrice) THEN DegradedAnalysis("realizedPriceRatio")
  ELSE RealizedPriceRatioOf(RDiv(currentPrice, realizedPrice))

(***************************************************************************)
(* Composite calculation functions                                         *)
(***************************************************************************)
TIMEFRAME_LABELS ==
  [short |-> "short (1-7d)", medium |-> "medium (1-4w)", long |-> "long (1-6mo)"]

\* JavaScript truthiness of weights.x: the key exists and is not 0
Applicable(weights, name) == name \in DOMAIN weights /\ ~IsZero(weights[name])

\* JavaScript truthiness of an optional number: defined and not 0
Truthy(o) == IsSome(o) /\ ~IsZero(Val(o))

\* analysis.weight = weights.x; metrics.push(analysis)
Weighted(analysis, weights) ==
  <<[analysis EXCEPT !.weight = weights[analysis.name]]>>

\* the metrics array after the thirteen blocks of calculateTimeframeAssessment,
\* in push order
CollectMetrics(weights, input, category) ==
      (IF Applicable(weights, "mvrv") /\ IsSome(input.mvrv)
         THEN Weighted(analyzeMVRVValuation(Val(input.mvrv), category), weights)
         ELSE <<>>)
   \o (IF Applicable(weights, "nvt") /\ IsSome(input.nvt)
         THEN Weighted(analyzeNVTValuation(Val(input.nvt), category), weights)
         ELSE <<>>)
   \o (IF Applicable(weights, "priceVsMa50") /\ Truthy(input.ma50)
         THEN Weighted(analyzePriceVsMA(input.currentPrice, Val(input.ma50),
                                        "50", category), weights)
         ELSE <<>>)
   \o (IF Applicable(weights, "priceVsMa200") /\ Truthy(input.ma200)
         THEN Weighted(analyzePriceVsMA(input.currentPrice, Val(input.ma200),
                                        "200", category), weights)
         ELSE <<>>)
   \o (IF Applicable(weights, "exchangeNetflow") /\ IsSome(input.exchangeNetflow)
         THEN Weighted(analyzeExchangeNetflowValuation(Val(input.exchangeNetflow)),
                       weights)
         ELSE <<>>)
   \o (IF Applicable(weights, "fearGreed") /\ IsSome(input.fearGreed)
         THEN Weighted(analyzeFearGreedValuation(Val(input.fearGreed)), weights)
         ELSE <<>>)
   \o (IF Applicable(weights, "kimchiPremium") /\ IsSome(input.kimchiPremium)
         THEN Weighted(analyzeKimchiPremiumValuation(Val(input.kimchiPremium)),
                       weights)
         ELSE <<>>)
   \o (IF /\ Applicable(weights, "activeAddressRatio")
          /\ Truthy(input.activeAddresses)
          /\ Truthy(input.activeAddresses30dAvg)
         THEN Weighted(analyzeActiveAddressRatio(Val(input.activeAddresses),
                                                 Val(input.activeAddresses30dAvg)),
                       weights)
         ELSE <<>>)
   \o (IF /\ Applicable(weights, "cyclePosition")
          /\ Truthy(input.ath)
          /\ Truthy(input.cycleLow)
         THEN Weighted(analyzeCyclePosition(input.currentPrice, Val(input.ath),
                                            Val(input.cycleLow)), weights)
         ELSE <<>>)
   \o (IF Applicable(weights, "realizedPriceRatio") /\ Truthy(input.realizedPrice)
         THEN Weighted(analyzeRealizedPriceRatio(input.currentPrice,
                                                 Val(input.realizedPrice)), weights)
         ELSE <<>>)
   \o (IF Applicable(weights, "socialSentiment") /\ IsSome(input.sentiment)
         THEN Weighted(analyzeSocialSentimentValuation(
                         Val(input.sentiment).socialSentiment), weights)
         ELSE <<>>)
   \o (IF Applicable(weights, "newsSentiment") /\ IsSome(input.sentiment)
         THEN Weighted(analyzeNewsSentimentValuation(
                         Val(input.sentiment).newsScore), weights)
         ELSE <<>>)
   \o (IF Applicable(weights, "fundingRate") /\ IsSome(input.sentiment)
         THEN Weighted(analyzeFundingRateValuation(
                         Val(input.sentiment).fundingRate), weights)
         ELSE <<>>)

\* the three `+=` lines with the weight left out of weightedScore
AccumulateOne_UnweightedScore(acc, analysis) ==
  [totalWeight |-> RAdd(acc.totalWeight, analysis.weight),
   weightedScore |->
     RAdd(acc.weightedScore, RMul(analysis.normalizedScore, analysis.confidence)),
   weightedConfidence |->
     RAdd(acc.weightedConfidence, RMul(analysis.weight, analysis.confidence))]

\* the three `+=` lines of one block
AccumulateOne(acc, analysis) ==
  [totalWeight |-> RAdd(acc.totalWeight, analysis.weight),
   weightedScore |->
     RAdd(acc.weightedScore,
          RMul(RMul(analysis.normalizedScore, analysis.weight),
               analysis.confidence)),
   weightedConfidence |->
     RAdd(acc.weightedConfidence, RMul(analysis.weight, analysis.confidence))]

\* the three running sums after every pushed metric has been accumulated
RECURSIVE Accumulate(_)
Accumulate(metrics) ==
  IF metrics = <<>>
    THEN [totalWeight |-> Zero, weightedScore |-> Zero, weightedConfidence |-> Zero]
    ELSE AccumulateOne(Accumulate(SubSeq(metrics, 1, Len(metrics) - 1)),
                       metrics[Len(metrics)])

\* the final scores with 0 in place of the neutral 0.5
FinalScores_ZeroDefault(acc) ==
  IF RLt(Zero, acc.totalWeight)
    THEN [overvaluationScore |-> RDiv(acc.weightedScore, acc.totalWeight),
          confidence |-> RDiv(acc.weightedConfidence, acc.totalWeight)]
    ELSE [overvaluationScore |-> Zero, confidence |-> Zero]

\* totalWeight > 0 ? weightedScore / totalWeight : 0.5, and the confidence
FinalScores(acc) ==
  IF RLt(Zero, acc.totalWeight)
    THEN [overvaluationScore |-> RDiv(acc.weightedScore, acc.totalWeight),
          confidence |-> RDiv(acc.weightedConfidence, acc.totalWeight)]
    ELSE [overvaluationScore |-> Half, confidence |-> Zero]

\* the object calculateTimeframeAssessment returns
TimeframeAssessment(timeframe, metrics, final) ==
  [timeframe |-> timeframe,
   label |-> TIMEFRAME_LABELS[timeframe],
   overvaluationScore |-> final.overvaluationScore,
   riskLevel |-> getValuationRiskLevel(final.overvaluationScore),
   metrics |-> metrics,
   confidence |-> final.confidence]

\* calculateTimeframeAssessment once its metrics array is complete
AssessMetrics(timeframe, metrics) ==
  TimeframeAssessment(timeframe, metrics, FinalScores(Accumulate(metrics)))

calculateTimeframeAssessment(timeframe, input, category) ==
  AssessMetrics(timeframe,
                CollectMetrics(TIMEFRAME_WEIGHTS[timeframe], input, category))

\* the contribution measured from 0 instead of from the neutral 0.5
Contribution_FromZero(m) ==
  RMul(RMul(RAbs(m.normalizedScore), m.weight), m.confidence)

\* Math.abs(m.normalizedScore - 0.5) * m.weight * m.confidence
Contribution(m) ==
  RMul(RMul(RAbs(RSub(m.normalizedScore, Half)), m.weight), m.confidence)

\* metrics.map((m) => ({ ...m, timeframe: tag })) followed by
\* .map((m) => ({ ...m, contribution: .. }))
WithContribution(metrics, tag) ==
  [i \in 1..Len(metrics) |->
     [name |-> metrics[i].name, normalizedScore |-> metrics[i].normalizedScore,
      reason |-> metrics[i].reason, timeframe |-> tag,
      contribution |-> Contribution(metrics[i])]]

\* Array.prototype.sort with (a, b) => b.contribution - a.contribution:
\* a stable sort, so m goes behind every element that does not compare after it
RECURSIVE InsertByContribution(_, _)
InsertByContribution(sorted, m) ==
  IF sorted = <<>> THEN <<m>>
  ELSE IF RLt(sorted[Len(sorted)].contribution, m.contribution)
    THEN InsertByContribution(SubSeq(sorted, 1, Len(sorted) - 1), m)
           \o <<sorted[Len(sorted)]>>
    ELSE sorted \o <<m>>

RECURSIVE SortByContribution(_)
SortByContribution(s) ==
  IF s = <<>> THEN <<>>
  ELSE InsertByContribution(SortByContribution(SubSeq(s, 1, Len(s) - 1)),
                            s[Len(s)])

\* sorted.slice(0, 5)
Slice5(s) == SubSeq(s, 1, IF Len(s) < 5 THEN Len(s) ELSE 5)

\* the driver mapping with 0.6 itself counted as bearish
Drivers_InclusiveBearish(top) ==
  [i \in 1..Len(top) |->
     [metric |-> <<top[i].name, top[i].timeframe>>,
      contribution |-> top[i].contribution,
      direction |->
        IF RLt(top[i].normalizedScore, Pct(40)) THEN "bullish"
        ELSE IF RLe(Pct(60), top[i].normalizedScore) THEN "bearish"
        ELSE "neutral",
      reason |-> top[i].reason,
      severity |->
        IF RLt(Pct(15), top[i].contribution) THEN "high"
        ELSE IF RLt(Pct(8), top[i].contribution) THEN "medium"
        ELSE "low"]]

\* top.map((m) => ({ metric, contribution, direction, reason, severity }))
Drivers(top) ==
  [i \in 1..Len(top) |->
     [metric |-> <<top[i].name, top[i].timeframe>>,
      contribution |-> top[i].contribution,
      direction |->
        IF RLt(top[i].normalizedScore, Pct(40)) THEN "bullish"
        ELSE IF RLt(Pct(60), top[i].normalizedScore) THEN "bearish"
        ELSE "neutral",
      reason |-> top[i].reason,
      severity |->
        IF RLt(Pct(15), top[i].contribution) THEN "high"
        ELSE IF RLt(Pct(8), top[i].contribution) THEN "medium"
        ELSE "low"]]

\* extractKeyDrivers taking the first five metrics before it sorts them
extractKeyDrivers_SliceFirst(shortTerm, mediumTerm, longTerm) ==
  Drivers(SortByContribution(Slice5(
    WithContribution(shortTerm.metrics, "short")
      \o WithContribution(mediumTerm.metrics, "medium")
      \o WithContribution(longTerm.metrics, "long"))))

extractKeyDrivers(shortTerm, mediumTerm, longTerm) ==
  Drivers(Slice5(SortByContribution(
    WithContribution(shortTerm.metrics, "short")
      \o WithContribution(mediumTerm.metrics, "medium")
      \o WithContribution(longTerm.metrics, "long"))))

\* drivers.filter(d => d.direction === 'bearish' && d.severity === 'high').length
HighSeverityBearish(drivers) ==
  Cardinality({i \in 1..Len(drivers) :
                 drivers[i].direction = "bearish" /\ drivers[i].severity = "high"})

\* generateRecommendation escalating REDUCE on a single high-severity driver
generateRecommendation_OneDriver(score, drivers) ==
  IF RLt(score, Pct(25)) THEN
    [action |-> "ACCUMULATE", reason |-> "undervalued - buy actively",
     urgency |-> IF RLt(score, Pct(15)) THEN "high" ELSE "medium"]
  ELSE IF RLt(score, Pct(45)) THEN
    [action |-> "ACCUMULATE", reason |-> "below fair value - buy gradually",
     urgency |-> "low"]
  ELSE IF RLt(score, Pct(60)) THEN
    [action |-> "HOLD", reason |-> "fair value - keep position", urgency |-> "low"]
  ELSE IF RLt(score, Pct(75)) THEN
    [action |-> "REDUCE", reason |-> "overvalued - take partial profit",
     urgency |-> IF HighSeverityBearish(drivers) >= 1 THEN "high" ELSE "medium"]
  ELSE
    [action |-> "EXIT", reason |-> "extreme overvaluation - close most positions",
     urgency |-> "high"]

generateRecommendation(score, drivers) ==
  IF RLt(score, Pct(25)) THEN
    [action |-> "ACCUMULATE", reason |-> "undervalued - buy actively",
     urgency |-> IF RLt(score, Pct(15)) THEN "high" ELSE "medium"]
  ELSE IF RLt(score, Pct(45)) THEN
    [action |-> "ACCUMULATE", reason |-> "below fair value - buy gradually",
     urgency |-> "low"]
  ELSE IF RLt(score, Pct(60)) THEN
    [action |-> "HOLD", reason |-> "fair value - keep position", urgency |-> "low"]
  ELSE IF RLt(score, Pct(75)) THEN
    [action |-> "REDUCE", reason |-> "overvalued - take partial profit",
     urgency |-> IF HighSeverityBearish(drivers) >= 2 THEN "high" ELSE "medium"]
  ELSE
    [action |-> "EXIT", reason |-> "extreme overvaluation - close most positions",
     urgency |-> "high"]

(***************************************************************************)
(* Main calculation function                                               *)
(***************************************************************************)
\* the 0.20/0.35/0.45 blend with the medium and long weights exchanged
Blend_Swapped(short, medium, long) ==
  RAdd(RAdd(RMul(short, COMPOSITE_TIMEFRAME_WEIGHTS.short),
            RMul(medium, COMPOSITE_TIMEFRAME_WEIGHTS.long)),
       RMul(long, COMPOSITE_TIMEFRAME_WEIGHTS.medium))

\* short * W.short + medium * W.medium + long * W.long, as calculateValuationRisk
\* computes compositeScore and overallConfidence
Blend(short, medium, long) ==
  RAdd(RAdd(RMul(short, COMPOSITE_TIMEFRAME_WEIGHTS.short),
            RMul(medium, COMPOSITE_TIMEFRAME_WEIGHTS.medium)),
       RMul(long, COMPOSITE_TIMEFRAME_WEIGHTS.long))

\* allMetrics.filter((m) => m.confidence > 0).length / allMetrics.length, or 0
DataCompleteness(allMetrics) ==
  IF Len(allMetrics) > 0
    THEN Q(Cardinality({i \in 1..Len(allMetrics) :
                          RLt(Zero, allMetrics[i].confidence)}),
           Len(allMetrics))
    ELSE Zero

\* the object calculateValuationRisk returns, without the estimationMethod
\* text; `now` is the clock reading `new Date()` takes
ValuationRiskResult(input, shortTerm, mediumTerm, longTerm, compositeScore, keyDrivers, now) ==
  [symbol |-> input.symbol,
   timestamp |-> now,
   compositeScore |-> compositeScore,
   riskLevel |-> getValuationRiskLevel(compositeScore),
   shortTerm |-> shortTerm,
   mediumTerm |-> mediumTerm,
   longTerm |-> longTerm,
   keyDrivers |-> keyDrivers,
   confidence |->
     [overall |-> Blend(shortTerm.confidence, mediumTerm.confidence,
                        longTerm.confidence),
      dataCompleteness |->
        DataCompleteness(shortTerm.metrics \o mediumTerm.metrics
                           \o longTerm.metrics),
      isEstimated |-> input.symbol # "BTC"],
   recommendation |-> generateRecommendation(compositeScore, keyDrivers)]

\* calculateValuationRisk once the three assessments are computed
CombineTimeframes(input, shortTerm, mediumTerm, longTerm, now) ==
  ValuationRiskResult(input, shortTerm, mediumTerm, longTerm,
                      Blend(shortTerm.overvaluationScore,
                            mediumTerm.overvaluationScore,
                            longTerm.overvaluationScore),
                      extractKeyDrivers(shortTerm, mediumTerm, longTerm), now)

\* calculateValuationRisk once the category is known
AssessAll(input, category, now) ==
  CombineTimeframes(input,
                    calculateTimeframeAssessment("short", input, category),
                    calculateTimeframeAssessment("medium", input, category),
                    calculateTimeframeAssessment("long", input, category), now)

\* calculateValuationRisk called when the clock reads `now`
calculateValuationRisk(input, now) ==
  AssessAll(input, getAssetCategory(input.symbol), now)

(***************************************************************************)
(* Altcoin estimation functions                                            *)
(***************************************************************************)
\* adjustMetricByBeta taking half the range for the midpoint
adjustMetricByBeta_HalfRange(baseValue, beta, minValue, maxValue) ==
  RMax(minValue,
       RMin(maxValue,
            RAdd(RDiv(RSub(maxValue, minValue), Int2Q(2)),
                 RMul(RSub(baseValue, RDiv(RSub(maxValue, minValue), Int2Q(2))),
                      beta))))

\* neutral + (baseValue - neutral) * beta with neutral = (minValue + maxValue) / 2,
\* held between minValue and maxValue
adjustMetricByBeta(baseValue, beta, minValue, maxValue) ==
  RMax(minValue,
       RMin(maxValue,
            RAdd(RDiv(RAdd(minValue, maxValue), Int2Q(2)),
                 RMul(RSub(baseValue, RDiv(RAdd(minValue, maxValue), Int2Q(2))),
                      beta))))

\* the record estimateAltcoinValuation returns for the beta of the category;
\* the fields it does not set are undefined
EstimateWithBeta(symbol, btcData, altcoinPrice, altcoinMa200, beta) ==
  [f \in DOMAIN btcData |->
     CASE f = "symbol" -> symbol
       [] f = "currentPrice" -> altcoinPrice
       [] f = "mvrv" ->
            IF IsSome(btcData.mvrv)
              THEN Some(adjustMetricByBeta(Val(btcData.mvrv), beta, Half, Int2Q(5)))
              ELSE None
       [] f = "nvt" ->
            IF IsSome(btcData.nvt)
              THEN Some(RMul(Val(btcData.nvt),
                             RAdd(One, RMul(RSub(beta, One), Q(3, 10)))))
              ELSE None
       [] f = "exchangeNetflow" ->
            IF IsSome(btcData.exchangeNetflow)
              THEN Some(RMul(Val(btcData.exchangeNetflow), beta))
              ELSE None
       [] f = "ma200" -> altcoinMa200
       [] f = "fearGreed" -> btcData.fearGreed
       [] f = "kimchiPremium" -> btcData.kimchiPremium
       [] OTHER -> None]

\* the estimate with the beta of core for every symbol
estimateAltcoinValuation_CoreBeta(symbol, btcData, altcoinPrice, altcoinMa200) ==
  EstimateWithBeta(symbol, btcData, altcoinPrice, altcoinMa200,
                   CATEGORY_VALUATION_THRESHOLDS["core"].betaToBtc)

estimateAltcoinValuation(symbol, btcData, altcoinPrice, altcoinMa200) ==
  EstimateWithBeta(symbol, btcData, altcoinPrice, altcoinMa200,
                   CATEGORY_VALUATION_THRESHOLDS[getAssetCategory(symbol)].betaToBtc)

(***************************************************************************)
(* Cash allocation: indicator analyses (scores on the 0..100 scale).  The  *)
(* `reason` text of an IndicatorAnalysis is left out.                      *)
(***************************************************************************)
\* Object.keys(WEIGHTS) in insertion order, and the weights
WEIGHT_KEYS ==
  <<"fearGreed", "mvrv", "kimchiPremium", "exchangeFlow", "dxy", "marketTrend",
    "volatility">>

WEIGHTS ==
  [fearGreed |-> Pct(20), mvrv |-> Pct(15), kimchiPremium |-> Pct(10),
   exchangeFlow |-> Pct(15), dxy |-> Pct(10), marketTrend |-> Pct(15),
   volatility |-> Pct(15)]

IndicatorAnalysis(score, action, value) ==
  [score |-> Int2Q(score), action |-> action, value |-> value]

analyzeFearGreed(value) ==
  IF RLe(value, Int2Q(25)) THEN IndicatorAnalysis(20, "REDUCE_CASH", value)
  ELSE IF RLe(value, Int2Q(45)) THEN IndicatorAnalysis(40, "NEUTRAL", value)
  ELSE IF RLe(value, Int2Q(55)) THEN IndicatorAnalysis(50, "NEUTRAL", value)
  ELSE IF RLe(value, Int2Q(75)) THEN IndicatorAnalysis(70, "INCREASE_CASH", value)
  ELSE IndicatorAnalysis(90, "MAX_CASH", value)

analyzeMVRV(value) ==
  IF RLt(value, Int2Q(1)) THEN IndicatorAnalysis(10, "REDUCE_CASH", value)
  ELSE IF RLt(value, Int2Q(2)) THEN IndicatorAnalysis(30, "REDUCE_CASH", value)
  ELSE IF RLt(value, Int2Q(3)) THEN IndicatorAnalysis(50, "NEUTRAL", value)
  ELSE IF RLt(value, Int2Q(4)) THEN IndicatorAnalysis(75, "INCREASE_CASH", value)
  ELSE IndicatorAnalysis(95, "MAX_CASH", value)

analyzeKimchiPremium(value) ==
  IF RLt(value, Int2Q(-2)) THEN IndicatorAnalysis(20, "REDUCE_CASH", value)
  ELSE IF RLt(value, Int2Q(2)) THEN IndicatorAnalysis(50, "NEUTRAL", value)
  ELSE IF RLt(value, Int2Q(5)) THEN IndicatorAnalysis(60, "NEUTRAL", value)
  ELSE IF RLt(value, Int2Q(10)) THEN IndicatorAnalysis(80, "INCREASE_CASH", value)
  ELSE IndicatorAnalysis(95, "MAX_CASH", value)

analyzeExchangeFlow(netFlow) ==
  IF RLt(netFlow, Int2Q(-10000)) THEN IndicatorAnalysis(20, "REDUCE_CASH", netFlow)
  ELSE IF RLt(netFlow, Int2Q(-5000)) THEN IndicatorAnalysis(35, "REDUCE_CASH", netFlow)
  ELSE IF RLt(netFlow, Int2Q(5000)) THEN IndicatorAnalysis(50, "NEUTRAL", netFlow)
  ELSE IF RLt(netFlow, Int2Q(10000)) THEN IndicatorAnalysis(70, "INCREASE_CASH", netFlow)
  ELSE IndicatorAnalysis(90, "MAX_CASH", netFlow)

\* the part of analyzeMarketTrend behind its ma200 === 0 guard
MarketTrendOf(deviation) ==
  IF RLt(deviation, Int2Q(-30)) THEN IndicatorAnalysis(15, "REDUCE_CASH", deviation)
  ELSE IF RLt(deviation, Int2Q(-10)) THEN IndicatorAnalysis(30, "REDUCE_CASH", deviation)
  ELSE IF RLt(deviation, Int2Q(30)) THEN IndicatorAnalysis(50, "NEUTRAL", deviation)
  ELSE IF RLt(deviation, Int2Q(60)) THEN IndicatorAnalysis(70, "INCREASE_CASH", deviation)
  ELSE IndicatorAnalysis(90, "MAX_CASH", deviation)

analyzeMarketTrend(currentPrice, ma200) ==
  IF IsZero(ma200) THEN IndicatorAnalysis(50, "NEUTRAL", Zero)
  ELSE MarketTrendOf(RMul(RDiv(RSub(currentPrice, ma200), ma200), Int2Q(100)))

analyzeVolatility(vix) ==
  IF RLt(vix, Int2Q(15)) THEN IndicatorAnalysis(40, "NEUTRAL", vix)
  ELSE IF RLt(vix, Int2Q(20)) THEN IndicatorAnalysis(50, "NEUTRAL", vix)
  ELSE IF RLt(vix, Int2Q(30)) THEN IndicatorAnalysis(65, "INCREASE_CASH", vix)
  ELSE IF RLt(vix, Int2Q(40)) THEN IndicatorAnalysis(80, "INCREASE_CASH", vix)
  ELSE IndicatorAnalysis(90, "MAX_CASH", vix)

analyzeNVT(nvt) ==
  IF RLt(nvt, Int2Q(45)) THEN IndicatorAnalysis(25, "REDUCE_CASH", nvt)
  ELSE IF RLt(nvt, Int2Q(65)) THEN IndicatorAnalysis(50, "NEUTRAL", nvt)
  ELSE IF RLt(nvt, Int2Q(90)) THEN IndicatorAnalysis(70, "INCREASE_CASH", nvt)
  ELSE IndicatorAnalysis(85, "MAX_CASH", nvt)

\* o ?? fallback
OrElse(o, fallback) == IF IsSome(o) THEN Val(o) ELSE fallback

(***************************************************************************)
(* Comprehensive cash allocation calculator                                *)
(***************************************************************************)
\* the analyses object with 50 for the default of vix
CashAnalyses_HighVixDefault(indicators) ==
  <<[key |-> "fearGreed",
     analysis |-> analyzeFearGreed(OrElse(indicators.fearGreed, Int2Q(50)))],
    [key |-> "mvrv",
     analysis |-> analyzeMVRV(OrElse(indicators.mvrv, Int2Q(2)))],
    [key |-> "kimchiPremium",
     analysis |-> analyzeKimchiPremium(OrElse(indicators.kimchiPremium, Zero))],
    [key |-> "exchangeFlow",
     analysis |-> analyzeExchangeFlow(OrElse(indicators.exchangeFlow, Zero))],
    [key |-> "marketTrend",
     analysis |->
       analyzeMarketTrend(OrElse(indicators.currentPrice, Zero),
                          OrElse(indicators.ma200,
                                 OrElse(indicators.currentPrice, Zero)))],
    [key |-> "volatility",
     analysis |-> analyzeVolatility(OrElse(indicators.vix, Int2Q(50)))]>>
  \o (IF IsSome(indicators.nvt)
        THEN <<[key |-> "nvt", analysis |-> analyzeNVT(Val(indicators.nvt))]>>
        ELSE <<>>)

\* the analyses object: its key/value entries in insertion order
CashAnalyses(indicators) ==
  <<[key |-> "fearGreed",
     analysis |-> analyzeFearGreed(OrElse(indicators.fearGreed, Int2Q(50)))],
    [key |-> "mvrv",
     analysis |-> analyzeMVRV(OrElse(indicators.mvrv, Int2Q(2)))],
    [key |-> "kimchiPremium",
     analysis |-> analyzeKimchiPremium(OrElse(indicators.kimchiPremium, Zero))],
    [key |-> "exchangeFlow",
     analysis |-> analyzeExchangeFlow(OrElse(indicators.exchangeFlow, Zero))],
    [key |-> "marketTrend",
     analysis |->
       analyzeMarketTrend(OrElse(indicators.currentPrice, Zero),
                          OrElse(indicators.ma200,
                                 OrElse(indicators.currentPrice, Zero)))],
    [key |-> "volatility",
     analysis |-> analyzeVolatility(OrElse(indicators.vix, Int2Q(20)))]>>
  \o (IF IsSome(indicators.nvt)
        THEN <<[key |-> "nvt", analysis |-> analyzeNVT(Val(indicators.nvt))]>>
        ELSE <<>>)

\* analyses[key]: the entry of that key, if there is one
EntriesOf(analyses, key) == SelectSeq(analyses, LAMBDA e : e.key = key)

\* one turn of the forEach over Object.keys(WEIGHTS)
CashAddKey(acc, found, weight) ==
  IF found = <<>> THEN acc
  ELSE [totalScore |-> RAdd(acc.totalScore, RMul(found[1].analysis.score, weight)),
        totalWeight |-> RAdd(acc.totalWeight, weight)]

\* totalScore and totalWeight after the forEach over the keys
RECURSIVE CashTotals(_, _)
CashTotals(analyses, keys) ==
  IF keys = <<>> THEN [totalScore |-> Zero, totalWeight |-> Zero]
  ELSE CashAddKey(CashTotals(analyses, SubSeq(keys, 1, Len(keys) - 1)),
                  EntriesOf(analyses, keys[Len(keys)]),
                  WEIGHTS[keys[Len(keys)]])

\* the final score over the fixed denominator 1.0
CashFinalScore_FixedDenominator(totals) ==
  IF RLt(Zero, totals.totalWeight) THEN totals.totalScore ELSE Int2Q(50)

\* totalWeight > 0 ? totalScore / totalWeight : 50
CashFinalScore(totals) ==
  IF RLt(Zero, totals.totalWeight)
    THEN RDiv(totals.totalScore, totals.totalWeight)
    ELSE Int2Q(50)

\* Math.round: the nearest integer, a half going up
MathRound(x) == Int2Q((2 * x.n + x.d) \div (2 * x.d))

\* the conversion with the cash of the two highest buckets exchanged
CashBucket_SwappedCash(finalScore) ==
  IF RLe(finalScore, Int2Q(25))
    THEN [recommendedCash |-> Int2Q(10), riskLevel |-> "AGGRESSIVE"]
  ELSE IF RLe(finalScore, Int2Q(40))
    THEN [recommendedCash |-> Int2Q(20), riskLevel |-> "GROWTH"]
  ELSE IF RLe(finalScore, Int2Q(55))
    THEN [recommendedCash |-> Int2Q(25), riskLevel |-> "BALANCED"]
  ELSE IF RLe(finalScore, Int2Q(70))
    THEN [recommendedCash |-> Int2Q(35), riskLevel |-> "CAUTIOUS"]
  ELSE IF RLe(finalScore, Int2Q(85))
    THEN [recommendedCash |-> Int2Q(55), riskLevel |-> "DEFENSIVE"]
  ELSE [recommendedCash |-> Int2Q(45), riskLevel |-> "PRESERVATION"]

\* the conversion of the score to recommendedCash and riskLevel
CashBucket(finalScore) ==
  IF RLe(finalScore, Int2Q(25))
    THEN [recommendedCash |-> Int2Q(10), riskLevel |-> "AGGRESSIVE"]
  ELSE IF RLe(finalScore, Int2Q(40))
    THEN [recommendedCash |-> Int2Q(20), riskLevel |-> "GROWTH"]
  ELSE IF RLe(finalScore, Int2Q(55))
    THEN [recommendedCash |-> Int2Q(25), riskLevel |-> "BALANCED"]
  ELSE IF RLe(finalScore, Int2Q(70))
    THEN [recommendedCash |-> Int2Q(35), riskLevel |-> "CAUTIOUS"]
  ELSE IF RLe(finalScore, Int2Q(85))
    THEN [recommendedCash |-> Int2Q(45), riskLevel |-> "DEFENSIVE"]
  ELSE [recommendedCash |-> Int2Q(55), riskLevel |-> "PRESERVATION"]

\* the breakdown with 0.10 for the weight of a key that has none
Breakdown_DefaultWeight(analyses) ==
  [i \in 1..Len(analyses) |->
     [indicator |-> analyses[i].key,
      score |-> analyses[i].analysis.score,
      weight |-> LookupOr(WEIGHTS, analyses[i].key, Pct(10)),
      contribution |-> RMul(analyses[i].analysis.score,
                            LookupOr(WEIGHTS, analyses[i].key, Pct(10))),
      action |-> analyses[i].analysis.action]]

\* Object.entries(analyses).map(..)
Breakdown(analyses) ==
  [i \in 1..Len(analyses) |->
     [indicator |-> analyses[i].key,
      score |-> analyses[i].analysis.score,
      weight |-> LookupOr(WEIGHTS, analyses[i].key, Zero),
      contribution |-> RMul(analyses[i].analysis.score,
                            LookupOr(WEIGHTS, analyses[i].key, Zero)),
      action |-> analyses[i].analysis.action]]

\* the object calculateRecommendedCashAllocation returns, without its
\* strategy text
CashRecommendation(analyses, finalScore) ==
  [score |-> MathRound(finalScore),
   recommendedCash |-> CashBucket(finalScore).recommendedCash,
   riskLevel |-> CashBucket(finalScore).riskLevel,
   analyses |-> analyses,
   breakdown |-> Breakdown(analyses)]

\* calculateRecommendedCashAllocation once the analyses object is built
RecommendFrom(analyses) ==
  CashRecommendation(analyses, CashFinalScore(CashTotals(analyses, WEIGHT_KEYS)))

calculateRecommendedCashAllocation(indicators) ==
  RecommendFrom(CashAnalyses(indicators))

(***************************************************************************)
(* Input domains                                                           *)
(***************************************************************************)
NoResult == <<>>

MvrvDomain == {Q(k, 10) : k \in -5..MaxMvrvTenths}
NvtDomain == {Int2Q(5 * k) : k \in 0..MaxNvtFifths}
PriceDomain == {Int2Q(10 * k) : k \in 0..MaxPriceTens}
MaDomain == {Zero, Int2Q(50), Int2Q(100)}
NetflowDomain == {Int2Q(2500 * k) : k \in -6..6}
FearGreedDomain == {Int2Q(k) : k \in 0..100}
KimchiDomain == {Q(k, 2) : k \in -10..30}
SentimentDomain == {Int2Q(k) : k \in -100..100}
FundingDomain == {Pct(k) : k \in -10..10}
AthDomain == {Zero, Int2Q(100), Int2Q(200)}
CycleLowDomain == {Zero, Int2Q(50), Int2Q(100), Int2Q(250)}
ScoreDomain == {Pct(k) : k \in 0..MaxScoreCents}

\* what generateRecommendation reads of a ValuationDriver
DriverKinds ==
  {[direction |-> "bearish", severity |-> "high"],
   [direction |-> "bearish", severity |-> "medium"],
   [direction |-> "bullish", severity |-> "high"],
   [direction |-> "neutral", severity |-> "low"]}

DriverLists == UNION {[1..n -> DriverKinds] : n \in 0..MaxDrivers}

(***************************************************************************)
(* Calls of the leaf functions: Init draws one call and its arguments, and *)
(* the action of that function runs it                                     *)
(***************************************************************************)
\* the argument records of the calls the specification makes
Args_analyzeSocialSentimentValuation ==
  [sentiment : SentimentDomain]

Args_analyzeNewsSentimentValuation ==
  [newsScore : SentimentDomain]

Args_analyzeFundingRateValuation ==
  [fundingRate : FundingDomain]

Args_analyzeMVRVValuation ==
  [mvrv : MvrvDomain, category : Categories]

Args_analyzeNVTValuation ==
  [nvt : NvtDomain, category : Categories]

Args_analyzePriceVsMA ==
  [currentPrice : PriceDomain, ma : MaDomain, maType : {"50", "200"}, category : Categories]

Args_analyzeExchangeNetflowValuation ==
  [netflow : NetflowDomain]

Args_analyzeFearGreedValuation ==
  [value : FearGreedDomain]

Args_analyzeKimchiPremiumValuation ==
  [premium : KimchiDomain]

Args_analyzeActiveAddressRatio ==
  [current : PriceDomain, average30d : MaDomain]

Args_analyzeCyclePosition ==
  [currentPrice : PriceDomain, ath : AthDomain, cycleLow : CycleLowDomain]

Args_analyzeRealizedPriceRatio ==
  [currentPrice : PriceDomain, realizedPrice : MaDomain]

Args_getValuationRiskLevel ==
  [score : ScoreDomain]

Args_generateRecommendation ==
  [score : ScoreDomain, drivers : DriverLists]

InitFn ==
  /\ pc = "call"
  /\ ret = NoResult
  /\ \/ op = "analyzeSocialSentimentValuation" /\ arg \in Args_analyzeSocialSentimentValuation
     \/ op = "analyzeNewsSentimentValuation" /\ arg \in Args_analyzeNewsSentimentValuation
     \/ op = "analyzeFundingRateValuation" /\ arg \in Args_analyzeFundingRateValuation
     \/ op = "analyzeMVRVValuation" /\ arg \in Args_analyzeMVRVValuation
     \/ op = "analyzeNVTValuation" /\ arg \in Args_analyzeNVTValuation
     \/ op = "analyzePriceVsMA" /\ arg \in Args_analyzePriceVsMA
     \/ op = "analyzeExchangeNetflowValuation" /\ arg \in Args_analyzeExchangeNetflowValuation
     \/ op = "analyzeFearGreedValuation" /\ arg \in Args_analyzeFearGreedValuation
     \/ op = "analyzeKimchiPremiumValuation" /\ arg \in Args_analyzeKimchiPremiumValuation
     \/ op = "analyzeActiveAddressRatio" /\ arg \in Args_analyzeActiveAddressRatio
     \/ op = "analyzeCyclePosition" /\ arg \in Args_analyzeCyclePosition
     \/ op = "analyzeRealizedPriceRatio" /\ arg \in Args_analyzeRealizedPriceRatio
     \/ op = "getValuationRiskLevel" /\ arg \in Args_getValuationRiskLevel
     \/ op = "generateRecommendation" /\ arg \in Args_generateRecommendation

Call_analyzeSocialSentimentValuation ==
  /\ pc = "call"
  /\ op = "analyzeSocialSentimentValuation"
  /\ ret' = analyzeSocialSentimentValuation(arg.sentiment)
  /\ pc' = "return"
  /\ UNCHANGED <<op, arg, host>>

Call_analyzeNewsSentimentValuation ==
  /\ pc = "call"
  /\ op = "analyzeNewsSentimentValuation"
  /\ ret' = analyzeNewsSentimentValuation(arg.newsScore)
  /\ pc' = "return"
  /\ UNCHANGED <<op, arg, host>>

Call_analyzeFundingRateValuation ==
  /\ pc = "call"
  /\ op = "analyzeFundingRateValuation"
  /\ ret' = analyzeFundingRateValuation(arg.fundingRate)
  /\ pc' = "return"
  /\ UNCHANGED <<op, arg, host>>

Call_analyzeMVRVValuation ==
  /\ pc = "call"
  /\ op = "analyzeMVRVValuation"
  /\ ret' = analyzeMVRVValuation(arg.mvrv, arg.category)
  /\ pc' = "return"
  /\ UNCHANGED <<op, arg, host>>

Call_analyzeNVTValuation ==
  /\ pc = "call"
  /\ op = "analyzeNVTValuation"
  /\ ret' = analyzeNVTValuation(arg.nvt, arg.category)
  /\ pc' = "return"
  /\ UNCHANGED <<op, arg, host>>

Call_analyzePriceVsMA ==
  /\ pc = "call"
  /\ op = "analyzePriceVsMA"
  /\ ret' = analyzePriceVsMA(arg.currentPrice, arg.ma, arg.maType, arg.category)
  /\ pc' = "return"
  /\ UNCHANGED <<op, arg, host>>

Call_analyzeExchangeNetflowValuation ==
  /\ pc = "call"
  /\ op = "analyzeExchangeNetflowValuation"
  /\ ret' = analyzeExchangeNetflowValuation(arg.netflow)
  /\ pc' = "return"
  /\ UNCHANGED <<op, arg, host>>

Call_analyzeFearGreedValuation ==
  /\ pc = "call"
  /\ op = "analyzeFearGreedValuation"
  /\ ret' = analyzeFearGreedValuation(arg.value)
  /\ pc' = "return"
  /\ UNCHANGED <<op, arg, host>>

Call_analyzeKimchiPremiumValuation ==
  /\ pc = "call"
  /\ op = "analyzeKimchiPremiumValuation"
  /\ ret' = analyzeKimchiPremiumValuation(arg.premium)
  /\ pc' = "return"
  /\ UNCHANGED <<op, arg, host>>

Call_analyzeActiveAddressRatio ==
  /\ pc = "call"
  /\ op = "analyzeActiveAddressRatio"
  /\ ret' = analyzeActiveAddressRatio(arg.current, arg.average30d)
  /\ pc' = "return"
  /\ UNCHANGED <<op, arg, host>>

Call_analyzeCyclePosition ==
  /\ pc = "call"
  /\ op = "analyzeCyclePosition"
  /\ ret' = analyzeCyclePosition(arg.currentPrice, arg.ath, arg.cycleLow)
  /\ pc' = "return"
  /\ UNCHANGED <<op, arg, host>>

Call_analyzeRealizedPriceRatio ==
  /\ pc = "call"
  /\ op = "analyzeRealizedPriceRatio"
  /\ ret' = analyzeRealizedPriceRatio(arg.currentPrice, arg.realizedPrice)
  /\ pc' = "return"
  /\ UNCHANGED <<op, arg, host>>

Call_getValuationRiskLevel ==
  /\ pc = "call"
  /\ op = "getValuationRiskLevel"
  /\ ret' = getValuationRiskLevel(arg.score)
  /\ pc' = "return"
  /\ UNCHANGED <<op, arg, host>>

Call_generateRecommendation ==
  /\ pc = "call"
  /\ op = "generateRecommendation"
  /\ ret' = generateRecommendation(arg.score, arg.drivers)
  /\ pc' = "return"
  /\ UNCHANGED <<op, arg, host>>

Normalizers ==
  {"analyzeSocialSentimentValuation", "analyzeNewsSentimentValuation",
   "analyzeFundingRateValuation", "analyzeMVRVValuation", "analyzeNVTValuation",
   "analyzePriceVsMA", "analyzeExchangeNetflowValuation",
   "analyzeFearGreedValuation", "analyzeKimchiPremiumValuation",
   "analyzeActiveAddressRatio", "analyzeCyclePosition",
   "analyzeRealizedPriceRatio"}

\* a call of function f has returned; "refreshed" is the return of the call a
\* refresh made
Returned(f) == pc \in {"return", "refreshed"} /\ op = f

(***************************************************************************)
(* Calls of the composite risk engine: Init draws an input record,         *)
(* Calculate runs calculateValuationRisk on it, and RecalculateMvrv is a   *)
(* refresh in which only the MVRV of the record has changed                *)
(***************************************************************************)
\* one symbol of each category of ASSET_CHARACTERISTICS and one outside it
Symbols == {"BTC", "XRP", "SOL", "DOGE", "PEPE"}

IndicatorFields ==
  {"mvrv", "nvt", "realizedPrice", "exchangeNetflow", "activeAddresses",
   "activeAddresses30dAvg", "ma50", "ma200", "ath", "cycleLow", "fearGreed",
   "kimchiPremium", "sentiment"}

SentimentRecord(social, news, funding) ==
  [socialSentiment |-> Int2Q(social), newsScore |-> Int2Q(news),
   fundingRate |-> Pct(funding)]

\* the values an indicator takes when it is supplied
IndicatorValues(f) ==
  CASE f = "mvrv" -> <<Q(4, 10), Q(12, 10), Q(22, 10), Q(28, 10), Q(38, 10)>>
    [] f = "nvt" -> <<Int2Q(30), Int2Q(80)>>
    [] f = "realizedPrice" -> <<Zero, Int2Q(40)>>
    [] f = "exchangeNetflow" -> <<Int2Q(-12000), Int2Q(6000)>>
    [] f = "activeAddresses" -> <<Int2Q(120)>>
    [] f = "activeAddresses30dAvg" -> <<Zero, Int2Q(100)>>
    [] f = "ma50" -> <<Zero, Int2Q(80)>>
    [] f = "ma200" -> <<Int2Q(50), Int2Q(160)>>
    [] f = "ath" -> <<Int2Q(60), Int2Q(150)>>
    [] f = "cycleLow" -> <<Zero, Int2Q(60)>>
    [] f = "fearGreed" -> <<Int2Q(10), Int2Q(85), Int2Q(150)>>
    [] f = "kimchiPremium" -> <<Int2Q(-3), Int2Q(12), Int2Q(3)>>
    [] f = "sentiment" -> <<SentimentRecord(-80, 40, 9), SentimentRecord(70, -60, -1)>>

\* the price every input record of the specification carries
CurrentPrice == Int2Q(100)

\* ValuationInputData: the fields of `supplied` carry the picked value, every
\* other indicator is undefined
InputRecord(symbol, supplied, pick) ==
  [f \in {"symbol", "currentPrice"} \cup IndicatorFields |->
     IF f = "symbol" THEN symbol
     ELSE IF f = "currentPrice" THEN CurrentPrice
     ELSE IF f \in supplied THEN Some(IndicatorValues(f)[pick[f]])
     ELSE None]

Supplied(input) == {f \in IndicatorFields : IsSome(input[f])}

InitRisk ==
  /\ pc = "call"
  /\ op = "calculateValuationRisk"
  /\ ret = NoResult
  /\ \E symbol \in Symbols :
       \E supplied \in {S \in SUBSET IndicatorFields : Cardinality(S) <= MaxSupplied} :
         \E pick \in [supplied -> 1..5] :
           /\ \A f \in supplied : pick[f] <= Len(IndicatorValues(f))
           /\ arg = InputRecord(symbol, supplied, pick)

Calculate ==
  /\ pc = "call"
  /\ op = "calculateValuationRisk"
  /\ ret' = calculateValuationRisk(arg, 0)
  /\ pc' = "return"
  /\ UNCHANGED <<op, arg, host>>

RecalculateMvrv ==
  /\ pc = "return"
  /\ op = "calculateValuationRisk"
  /\ IsSome(arg.mvrv)
  /\ \E i \in 1..Len(IndicatorValues("mvrv")) :
       arg' = [arg EXCEPT !.mvrv = Some(IndicatorValues("mvrv")[i])]
  /\ \E now \in ret.timestamp..MaxClock : ret' = calculateValuationRisk(arg', now)
  /\ pc' = "refreshed"
  /\ UNCHANGED <<op, host>>

(***************************************************************************)
(* Calls of the asset classifier                                           *)
(***************************************************************************)
\* the symbols of the table, symbols that are not in it, and names an object
\* literal inherits
SymbolDomain ==
  DOMAIN ASSET_CHARACTERISTICS
    \cup {"PEPE", "SHIB", "btc", "Eth", "", "toString", "constructor", "__proto__"}

Args_getAssetCategory == [symbol : SymbolDomain]

Args_getVolatilityAdjustedThreshold == [symbol : SymbolDomain]

InitClassifier ==
  /\ pc = "call"
  /\ ret = NoResult
  /\ \/ op = "getAssetCategory" /\ arg \in Args_getAssetCategory
     \/ op = "getVolatilityAdjustedThreshold"
          /\ arg \in Args_getVolatilityAdjustedThreshold

Call_getAssetCategory ==
  /\ pc = "call"
  /\ op = "getAssetCategory"
  /\ ret' = getAssetCategory(arg.symbol)
  /\ pc' = "return"
  /\ UNCHANGED <<op, arg, host>>

Call_getVolatilityAdjustedThreshold ==
  /\ pc = "call"
  /\ op = "getVolatilityAdjustedThreshold"
  /\ ret' = getVolatilityAdjustedThreshold(arg.symbol)
  /\ pc' = "return"
  /\ UNCHANGED <<op, arg, host>>

(***************************************************************************)
(* Calls of the altcoin estimator: the reference record carries an MVRV of  *)
(* the MVRV domain or none, and any subset of the other fields the         *)
(* estimator reads                                                         *)
(***************************************************************************)
ReferenceFields == {"nvt", "exchangeNetflow", "fearGreed", "kimchiPremium"}

\* the BTC record of the hook, with the fields of `others` supplied
ReferenceRecord(mvrv, others) ==
  [f \in {"symbol", "currentPrice"} \cup IndicatorFields |->
     IF f = "symbol" THEN "BTC"
     ELSE IF f = "currentPrice" THEN CurrentPrice
     ELSE IF f = "mvrv" THEN mvrv
     ELSE IF f \in others THEN Some(IndicatorValues(f)[2])
     ELSE None]

Args_estimateAltcoinValuation ==
  {[symbol |-> symbol, btcData |-> ReferenceRecord(mvrv, others),
    altcoinPrice |-> Int2Q(10), altcoinMa200 |-> ma200] :
     symbol \in Symbols,
     mvrv \in {None} \cup {Some(v) : v \in MvrvDomain},
     others \in SUBSET ReferenceFields,
     ma200 \in {None, Some(Int2Q(8))}}

InitEstimate ==
  /\ pc = "call"
  /\ ret = NoResult
  /\ op = "estimateAltcoinValuation"
  /\ arg \in Args_estimateAltcoinValuation

Call_estimateAltcoinValuation ==
  /\ pc = "call"
  /\ op = "estimateAltcoinValuation"
  /\ ret' = estimateAltcoinValuation(arg.symbol, arg.btcData, arg.altcoinPrice,
                                     arg.altcoinMa200)
  /\ pc' = "return"
  /\ UNCHANGED <<op, arg, host>>

(***************************************************************************)
(* Calls of the cash allocation calculator: every indicator is absent or   *)
(* carries one of a few values                                             *)
(***************************************************************************)
CashFearGreedValues == {None, Some(Int2Q(10)), Some(Int2Q(30)), Some(Int2Q(90))}
CashMvrvValues == {None, Some(Q(5, 10)), Some(Q(35, 10)), Some(Q(45, 10))}
CashKimchiValues == {None, Some(Int2Q(-3)), Some(Int2Q(3)), Some(Int2Q(12))}
CashFlowValues == {None, Some(Int2Q(-12000)), Some(Int2Q(6000)), Some(Int2Q(15000))}
CashVixValues == {None, Some(Int2Q(10)), Some(Int2Q(35)), Some(Int2Q(45))}
CashNvtValues == {None, Some(Int2Q(100))}
\* <<currentPrice, ma200>>
CashPriceValues ==
  {<<None, None>>, <<Some(Int2Q(100)), None>>, <<Some(Int2Q(100)), Some(Zero)>>,
   <<Some(Int2Q(100)), Some(Int2Q(50))>>, <<Some(Int2Q(100)), Some(Int2Q(200))>>,
   <<None, Some(Int2Q(100))>>}

\* IndicatorInputs
Args_calculateRecommendedCashAllocation ==
  {[fearGreed |-> fearGreed, mvrv |-> mvrv, kimchiPremium |-> kimchiPremium,
    exchangeFlow |-> exchangeFlow, currentPrice |-> price[1], ma200 |-> price[2],
    vix |-> vix, nvt |-> nvt, activeAddresses |-> None,
    activeAddresses30dAvg |-> None] :
     fearGreed \in CashFearGreedValues, mvrv \in CashMvrvValues,
     kimchiPremium \in CashKimchiValues, exchangeFlow \in CashFlowValues,
     price \in CashPriceValues, vix \in CashVixValues, nvt \in CashNvtValues}

\* the indicators an IndicatorInputs record carries
CashSupplied(indicators) == {f \in DOMAIN indicators : IsSome(indicators[f])}

InitCash ==
  /\ pc = "call"
  /\ ret = NoResult
  /\ op = "calculateRecommendedCashAllocation"
  /\ arg \in Args_calculateRecommendedCashAllocation

Call_calculateRecommendedCashAllocation ==
  /\ pc = "call"
  /\ op = "calculateRecommendedCashAllocation"
  /\ ret' = calculateRecommendedCashAllocation(arg)
  /\ pc' = "return"
  /\ UNCHANGED <<op, arg, host>>

\* a second call of the calculator on the same indicators
Recall_calculateRecommendedCashAllocation ==
  /\ pc = "return"
  /\ op = "calculateRecommendedCashAllocation"
  /\ ret' = calculateRecommendedCashAllocation(arg)
  /\ pc' = "refreshed"
  /\ UNCHANGED <<op, arg, host>>

(***************************************************************************)
(* Calls of calculateTimeframeAssessment on a BTC-like record of which any *)
(* subset of the four indicators is supplied, for every timeframe and      *)
(* category                                                                *)
(***************************************************************************)
ScenarioFields == {"mvrv", "nvt", "ma50", "ma200"}

ScenarioValues ==
  [mvrv |-> Q(18, 10), nvt |-> Int2Q(55), ma50 |-> Int2Q(48000),
   ma200 |-> Int2Q(40000)]

ScenarioRecord(supplied) ==
  [f \in {"symbol", "currentPrice"} \cup IndicatorFields |->
     IF f = "symbol" THEN "BTC"
     ELSE IF f = "currentPrice" THEN Int2Q(50000)
     ELSE IF f \in supplied THEN Some(ScenarioValues[f])
     ELSE None]

Args_calculateTimeframeAssessment ==
  {[timeframe |-> timeframe, input |-> ScenarioRecord(supplied),
    category |-> category] :
     timeframe \in Timeframes, supplied \in SUBSET ScenarioFields,
     category \in Categories}

InitAssess ==
  /\ pc = "call"
  /\ ret = NoResult
  /\ op = "calculateTimeframeAssessment"
  /\ arg \in Args_calculateTimeframeAssessment

Call_calculateTimeframeAssessment ==
  /\ pc = "call"
  /\ op = "calculateTimeframeAssessment"
  /\ ret' = calculateTimeframeAssessment(arg.timeframe, arg.input, arg.category)
  /\ pc' = "return"
  /\ UNCHANGED <<op, arg, host>>

(***************************************************************************)
(* Calls of the fallback of the hook: with no reference mvrv and nvt,       *)
(* calculateAll builds the input of an altcoin with                         *)
(* getDefaultAltcoinValuation, adds the asset's moving averages and         *)
(* assesses it                                                              *)
(***************************************************************************)
\* { symbol, currentPrice, fearGreed: fearGreed ?? 50 }
getDefaultAltcoinValuation(symbol, currentPrice, fearGreed) ==
  [f \in {"symbol", "currentPrice"} \cup IndicatorFields |->
     IF f = "symbol" THEN symbol
     ELSE IF f = "currentPrice" THEN currentPrice
     ELSE IF f = "fearGreed" THEN Some(OrElse(fearGreed, Int2Q(50)))
     ELSE None]

Args_getDefaultAltcoinValuation ==
  [symbol : Symbols \ {"BTC"}, currentPrice : {CurrentPrice},
   fearGreed : {None, Some(Int2Q(10)), Some(Int2Q(85))},
   assetMa50 : {None, Some(Int2Q(80))}, assetMa200 : {None, Some(Int2Q(160))}]

InitFallback ==
  /\ pc = "call"
  /\ ret = NoResult
  /\ op = "getDefaultAltcoinValuation"
  /\ arg \in Args_getDefaultAltcoinValuation

Call_getDefaultAltcoinValuation ==
  /\ pc = "call"
  /\ op = "getDefaultAltcoinValuation"
  /\ ret' = getDefaultAltcoinValuation(arg.symbol, arg.currentPrice, arg.fearGreed)
  /\ pc' = "return"
  /\ UNCHANGED <<op, arg, host>>

\* altcoinInput.ma50 = assetMa50; altcoinInput.ma200 = assetMa200;
\* newResults[symbol] = calculateValuationRisk(altcoinInput)
CalculateFallback ==
  /\ pc = "return"
  /\ op = "getDefaultAltcoinValuation"
  /\ ret' = calculateValuationRisk([ret EXCEPT !.ma50 = arg.assetMa50,
                                               !.ma200 = arg.assetMa200], 0)
  /\ pc' = "assessed"
  /\ UNCHANGED <<op, arg, host>>

(***************************************************************************)
(* Host state: the clock, the sentiment cache in localStorage, the refs of *)
(* useMarketData and the network                                           *)
(***************************************************************************)
\* Date.now() when the page is loaded
StartClock == 1000000

\* CACHE_TTL = 15 * 60 * 1000
CACHE_TTL == 15 * 60 * 1000

HostAtLoad ==
  /\ clock = StartClock
  /\ cache = None
  /\ isFetchingRef = FALSE
  /\ lastFetchRef = 0
  /\ requests = <<>>

(***************************************************************************)
(* fetchSentiment: the cache, then Santiment, then LunarCrush, then the    *)
(* estimate.  A step ends at an await; fetchSantimentData and              *)
(* fetchLunarCrushSentiment settle with a result, or with null when the    *)
(* symbol has no mapping, the response has no data or the request throws   *)
(* (every throw is caught inside them)                                     *)
(***************************************************************************)
\* getCache with an entry that has expired once it is as old as the TTL
getCache_ExpiresAtTtl(entry, t) ==
  IF entry = None THEN None
  ELSE IF t - Val(entry).fetchedAt >= CACHE_TTL THEN None
  ELSE Some([dataSource |-> "cache"])

\* getCache: null without an entry or when Date.now() - fetchedAt > CACHE_TTL,
\* otherwise the entry's data with dataSource 'cache'
getCache(entry, t) ==
  IF entry = None THEN None
  ELSE IF t - Val(entry).fetchedAt > CACHE_TTL THEN None
  ELSE Some([dataSource |-> "cache"])

\* setCache: the entry written, or the old one when localStorage throws
setCache(entry, dataSource, t, stored) ==
  IF stored THEN Some([fetchedAt |-> t, dataSource |-> dataSource]) ELSE entry

\* the ages of the entry a call may find, around the TTL
CacheAges == {0, CACHE_TTL - 1, CACHE_TTL, CACHE_TTL + 1}

Sources == {"santiment", "lunarcrush", "estimated"}

\* how a request settles
Outcomes == {"data", "null", "error"}

Args_fetchSentiment ==
  [symbol : {"BTC"}, santimentKey : BOOLEAN, lunarKey : BOOLEAN]

InitSentiment ==
  /\ pc = "call"
  /\ ret = NoResult
  /\ op = "fetchSentiment"
  /\ arg \in Args_fetchSentiment
  /\ clock = StartClock
  /\ cache \in {None}
       \cup {Some([fetchedAt |-> StartClock - age, dataSource |-> source]) :
               age \in CacheAges, source \in Sources}
  /\ isFetchingRef = FALSE
  /\ lastFetchRef = 0
  /\ requests = <<>>

\* a request sent and awaited
Sent(api) == Append(requests, [api |-> api, outcome |-> "pending"])

\* the last request settled
Settled(outcome) == [requests EXCEPT ![Len(requests)].outcome = outcome]

\* return estimateSentiment(symbol, fallbackInput || {})
ReturnEstimate(reqs) ==
  /\ \E stored \in BOOLEAN : cache' = setCache(cache, "estimated", clock', stored)
  /\ ret' = [dataSource |-> "estimated"]
  /\ pc' = "return"
  /\ requests' = reqs

\* if (LUNARCRUSH_API_KEY) await fetchLunarCrushSentiment(symbol), else the
\* estimate
TryLunarCrush(reqs) ==
  IF arg.lunarKey
    THEN /\ requests' = Append(reqs, [api |-> "lunarcrush", outcome |-> "pending"])
         /\ pc' = "lunarcrush"
         /\ UNCHANGED <<ret, cache>>
    ELSE ReturnEstimate(reqs)

\* fetchSentiment up to its first await or, without one, to its return
FetchSentiment ==
  /\ pc = "call"
  /\ op = "fetchSentiment"
  /\ clock' = clock
  /\ IF getCache(cache, clock) # None
       THEN /\ ret' = Val(getCache(cache, clock))
            /\ pc' = "return"
            /\ UNCHANGED <<cache, requests>>
       ELSE IF arg.santimentKey
         THEN /\ requests' = Sent("santiment")
              /\ pc' = "santiment"
              /\ UNCHANGED <<ret, cache>>
         ELSE TryLunarCrush(requests)
  /\ UNCHANGED <<op, arg, isFetchingRef, lastFetchRef>>

\* fetchSantimentData settles
SantimentSettles ==
  /\ pc = "santiment"
  /\ op = "fetchSentiment"
  /\ \E latency \in {0, 1} : clock' = clock + latency
  /\ \E outcome \in Outcomes :
       IF outcome = "data"
         THEN /\ \E stored \in BOOLEAN :
                   cache' = setCache(cache, "santiment", clock', stored)
              /\ ret' = [dataSource |-> "santiment"]
              /\ pc' = "return"
              /\ requests' = Settled(outcome)
         ELSE TryLunarCrush(Settled(outcome))
  /\ UNCHANGED <<op, arg, isFetchingRef, lastFetchRef>>

\* fetchLunarCrushSentiment settles
LunarCrushSettles ==
  /\ pc = "lunarcrush"
  /\ op = "fetchSentiment"
  /\ \E latency \in {0, 1} : clock' = clock + latency
  /\ \E outcome \in Outcomes :
       IF outcome = "data"
         THEN /\ \E stored \in BOOLEAN :
                   cache' = setCache(cache, "lunarcrush", clock', stored)
              /\ ret' = [dataSource |-> "lunarcrush"]
              /\ pc' = "return"
              /\ requests' = Settled(outcome)
         ELSE ReturnEstimate(Settled(outcome))
  /\ UNCHANGED <<op, arg, isFetchingRef, lastFetchRef>>

(***************************************************************************)
(* useMarketData: the effect calls fetchAllData on mount and on every tick *)
(* of its interval, the caller through refetch.  A call runs without       *)
(* interruption up to its await; the rest runs when the request settles.   *)
(* The clock advances between calls in steps of UPBIT_MIN_INTERVAL.        *)
(***************************************************************************)
\* UPBIT_MIN_INTERVAL = 1000
UPBIT_MIN_INTERVAL == 1000

\* the time the specification follows a mounted hook, in milliseconds
MaxElapsed == 4000

InitHook ==
  /\ pc = "mount"
  /\ ret = NoResult
  /\ op = "useMarketData"
  /\ arg = [symbols |-> <<"BTC", "ETH", "XRP", "SOL">>]
  /\ HostAtLoad

\* fetchAllData up to its await without the test of isFetchingRef
FetchAllData_NoFlagCheck(trigger) ==
  IF clock - lastFetchRef < UPBIT_MIN_INTERVAL * 3
    THEN /\ ret' = [trigger |-> trigger, fetched |-> FALSE]
         /\ UNCHANGED <<isFetchingRef, lastFetchRef, requests>>
    ELSE /\ isFetchingRef' = TRUE
         /\ lastFetchRef' = clock
         /\ requests' = Sent("fetchAllMarketData")
         /\ ret' = [trigger |-> trigger, fetched |-> TRUE]

\* fetchAllData up to its await: it returns at once while a fetch is in
\* flight or less than UPBIT_MIN_INTERVAL * 3 after the last accepted call
FetchAllData(trigger) ==
  IF isFetchingRef \/ clock - lastFetchRef < UPBIT_MIN_INTERVAL * 3
    THEN /\ ret' = [trigger |-> trigger, fetched |-> FALSE]
         /\ UNCHANGED <<isFetchingRef, lastFetchRef, requests>>
    ELSE /\ isFetchingRef' = TRUE
         /\ lastFetchRef' = clock
         /\ requests' = Sent("fetchAllMarketData")
         /\ ret' = [trigger |-> trigger, fetched |-> TRUE]

\* useEffect: fetchAllData(); setInterval(fetchAllData, refreshInterval)
Mount ==
  /\ pc = "mount"
  /\ op = "useMarketData"
  /\ FetchAllData("initial")
  /\ pc' = "mounted"
  /\ UNCHANGED <<op, arg, clock, cache>>

IntervalTick ==
  /\ pc = "mounted"
  /\ op = "useMarketData"
  /\ FetchAllData("interval")
  /\ UNCHANGED <<op, arg, pc, clock, cache>>

Refetch ==
  /\ pc = "mounted"
  /\ op = "useMarketData"
  /\ FetchAllData("refetch")
  /\ UNCHANGED <<op, arg, pc, clock, cache>>

\* api.fetchAllMarketData settles: try or catch, then
\* finally { isFetchingRef.current = false }
FetchSettles ==
  /\ pc = "mounted"
  /\ op = "useMarketData"
  /\ \E i \in DOMAIN requests :
       /\ requests[i].outcome = "pending"
       /\ \E outcome \in {"data", "error"} :
            requests' = [requests EXCEPT ![i].outcome = outcome]
  /\ isFetchingRef' = FALSE
  /\ UNCHANGED <<op, arg, pc, ret, clock, cache, lastFetchRef>>

AdvanceClock ==
  /\ op = "useMarketData"
  /\ clock + UPBIT_MIN_INTERVAL <= StartClock + MaxElapsed
  /\ clock' = clock + UPBIT_MIN_INTERVAL
  /\ UNCHANGED <<op, arg, pc, ret, cache, isFetchingRef, lastFetchRef, requests>>

(***************************************************************************)
(* Specification                                                           *)
(***************************************************************************)
\* a call of a pure function: the host state at page load
InitPure ==
  /\ HostAtLoad
  /\ \/ InitFn \/ InitRisk \/ InitClassifier \/ InitEstimate \/ InitCash
     \/ InitAssess \/ InitFallback

Init == InitPure \/ InitSentiment \/ InitHook

Next ==
  \/ Call_analyzeSocialSentimentValuation
  \/ Call_analyzeNewsSentimentValuation
  \/ Call_analyzeFundingRateValuation
  \/ Call_analyzeMVRVValuation
  \/ Call_analyzeNVTValuation
  \/ Call_analyzePriceVsMA
  \/ Call_analyzeExchangeNetflowValuation
  \/ Call_analyzeFearGreedValuation
  \/ Call_analyzeKimchiPremiumValuation
  \/ Call_analyzeActiveAddressRatio
  \/ Call_analyzeCyclePosition
  \/ Call_analyzeRealizedPriceRatio
  \/ Call_getValuationRiskLevel
  \/ Call_generateRecommendation
  \/ Calculate
  \/ RecalculateMvrv
  \/ Call_getAssetCategory
  \/ Call_getVolatilityAdjustedThreshold
  \/ Call_estimateAltcoinValuation
  \/ Call_calculateRecommendedCashAllocation
  \/ Recall_calculateRecommendedCashAllocation
  \/ Call_calculateTimeframeAssessment
  \/ Call_getDefaultAltcoinValuation
  \/ CalculateFallback
  \/ FetchSentiment
  \/ SantimentSettles
  \/ LunarCrushSettles
  \/ Mount
  \/ IntervalTick
  \/ Refetch
  \/ FetchSettles
  \/ AdvanceClock

Spec == Init /\ [][Next]_vars

(***************************************************************************)
(* Properties                                                              *)
(***************************************************************************)
InUnit(x) == RLe(Zero, x) /\ RLe(x, One)

\* C1: whichever of the twelve normalizers was called, for every category and
\* every input of its domain (fear & greed 0..100, sentiments -100..100, the
\* breakpoints included), the normalizedScore it returned lies in [0, 1].
C1_NormalizedScoreInUnit ==
  \A f \in Normalizers : Returned(f) => InUnit(ret.normalizedScore)

\* analyzeCyclePosition returned for a price above the all-time high, where
\* the raw position exceeds 100 percent, and analyzeMVRVValuation returned
\* at a breakpoint
C1_Witness_AboveAth ==
  /\ Returned("analyzeCyclePosition")
  /\ ~CyclePositionInvalid(arg.ath, arg.cycleLow)
  /\ RLt(arg.ath, arg.currentPrice)
  /\ ret.normalizedScore = One

\* the inputs on which each guarded normalizer is degraded
DegradedCall ==
  \/ Returned("analyzePriceVsMA") /\ arg.ma = Zero
  \/ Returned("analyzeActiveAddressRatio") /\ arg.average30d = Zero
  \/ Returned("analyzeRealizedPriceRatio") /\ arg.realizedPrice = Zero
  \/ /\ Returned("analyzeCyclePosition")
     /\ (arg.ath = Zero \/ arg.cycleLow = Zero \/ RLe(arg.ath, arg.cycleLow))

\* C2: analyzePriceVsMA with ma = 0, analyzeActiveAddressRatio with
\* average30d = 0, analyzeRealizedPriceRatio with realizedPrice = 0 and
\* analyzeCyclePosition with ath = 0, cycleLow = 0 or ath <= cycleLow return
\* normalizedScore 0.5 and confidence 0 (and so never reach a division).
C2_DegradedInputNeutral ==
  DegradedCall => ret.normalizedScore = Half /\ ret.confidence = Zero

\* analyzeCyclePosition returned for cycleLow = 0 under a positive ath
C2_Witness_ZeroCycleLow ==
  /\ Returned("analyzeCyclePosition")
  /\ arg.cycleLow = Zero
  /\ RLt(Zero, arg.ath)
  /\ RLt(Zero, arg.currentPrice)
  /\ ret.confidence = Zero

\* the input fields each metric is computed from
MetricInputs ==
  [mvrv |-> {"mvrv"}, nvt |-> {"nvt"}, priceVsMa50 |-> {"ma50"},
   priceVsMa200 |-> {"ma200"}, exchangeNetflow |-> {"exchangeNetflow"},
   fearGreed |-> {"fearGreed"}, kimchiPremium |-> {"kimchiPremium"},
   activeAddressRatio |-> {"activeAddresses", "activeAddresses30dAvg"},
   cyclePosition |-> {"ath", "cycleLow"},
   realizedPriceRatio |-> {"realizedPrice"},
   socialSentiment |-> {"sentiment"}, newsSentiment |-> {"sentiment"},
   fundingRate |-> {"sentiment"}]

\* no metric weighted in the timeframe has its fields in the input
NoApplicableMetric(timeframe, input) ==
  \A name \in DOMAIN TIMEFRAME_WEIGHTS[timeframe] :
    ~(MetricInputs[name] \subseteq Supplied(input))

\* the assessment of a timeframe inside a result
Assessment(result, timeframe) ==
  CASE timeframe = "short" -> result.shortTerm
    [] timeframe = "medium" -> result.mediumTerm
    [] timeframe = "long" -> result.longTerm

\* C3: for every timeframe and category, the assessment of an input that has
\* no metric applicable to the timeframe has overvaluationScore 0.5,
\* confidence 0 and an empty metrics list.
C3_NoApplicableMetricNeutral ==
  \A timeframe \in Timeframes :
    Returned("calculateValuationRisk") /\ NoApplicableMetric(timeframe, arg)
      => /\ Assessment(ret, timeframe).overvaluationScore = Half
         /\ Assessment(ret, timeframe).confidence = Zero
         /\ Assessment(ret, timeframe).metrics = <<>>

\* an input that does carry indicators, none of them weighted in the short
\* timeframe, while the long timeframe is assessed from them
C3_Witness_ShortEmpty ==
  /\ Returned("calculateValuationRisk")
  /\ Supplied(arg) # {}
  /\ NoApplicableMetric("short", arg)
  /\ ret.shortTerm.metrics = <<>>
  /\ ret.longTerm.metrics # <<>>

\* C4: on an input that carries only symbol and currentPrice,
\* calculateValuationRisk returns compositeScore 0.5, riskLevel ELEVATED and
\* the recommendation HOLD, whatever the symbol.
C4_NoIndicatorsHold ==
  Returned("calculateValuationRisk") /\ Supplied(arg) = {}
    => /\ ret.compositeScore = Half
       /\ ret.riskLevel = "ELEVATED"
       /\ ret.recommendation.action = "HOLD"

\* the result for a symbol outside ASSET_CHARACTERISTICS with no indicator
C4_Witness_UnknownSymbolEmpty ==
  /\ Returned("calculateValuationRisk")
  /\ arg.symbol \notin DOMAIN ASSET_CHARACTERISTICS
  /\ Supplied(arg) = {}
  /\ ret.keyDrivers = <<>>

\* the bucket the lower-inclusive partition gives a score
LowerInclusiveLevel(score) ==
  CASE RLt(score, Pct(20)) -> "UNDERVALUED"
    [] RLe(Pct(20), score) /\ RLt(score, Pct(40)) -> "FAIR_VALUE"
    [] RLe(Pct(40), score) /\ RLt(score, Pct(60)) -> "ELEVATED"
    [] RLe(Pct(60), score) /\ RLt(score, Pct(80)) -> "OVERVALUED"
    [] RLe(Pct(80), score) -> "EXTREME"

\* C5: getValuationRiskLevel maps score < 0.2 to UNDERVALUED, 0.2 <= score <
\* 0.4 to FAIR_VALUE, 0.4 <= score < 0.6 to ELEVATED, 0.6 <= score < 0.8 to
\* OVERVALUED and score >= 0.8 to EXTREME, so that 0.2, 0.4, 0.6 and 0.8 fall
\* in the upper of their two buckets; and the riskLevel of every timeframe and
\* of the composite of a result is that bucket of its score.
C5_LowerInclusiveBuckets ==
  /\ Returned("getValuationRiskLevel") => ret = LowerInclusiveLevel(arg.score)
  /\ Returned("calculateValuationRisk")
       => /\ ret.riskLevel = LowerInclusiveLevel(ret.compositeScore)
          /\ \A timeframe \in Timeframes :
               Assessment(ret, timeframe).riskLevel
                 = LowerInclusiveLevel(Assessment(ret, timeframe).overvaluationScore)

\* getValuationRiskLevel returned for a score that is exactly a boundary
C5_Witness_Boundary ==
  /\ Returned("getValuationRiskLevel")
  /\ arg.score = Pct(60)
  /\ ret = "OVERVALUED"

\* C6: compositeScore = shortTerm score x 0.20 + mediumTerm score x 0.35 +
\* longTerm score x 0.45, confidence.overall is the same blend of the three
\* timeframe confidences, and the three composite weights add up to 1.
C6_CompositeBlend ==
  /\ RAdd(RAdd(COMPOSITE_TIMEFRAME_WEIGHTS.short,
               COMPOSITE_TIMEFRAME_WEIGHTS.medium),
          COMPOSITE_TIMEFRAME_WEIGHTS.long) = One
  /\ Returned("calculateValuationRisk")
       => /\ ret.compositeScore
               = RAdd(RAdd(RMul(ret.shortTerm.overvaluationScore, Q(20, 100)),
                           RMul(ret.mediumTerm.overvaluationScore, Q(35, 100))),
                      RMul(ret.longTerm.overvaluationScore, Q(45, 100)))
          /\ ret.confidence.overall
               = RAdd(RAdd(RMul(ret.shortTerm.confidence, Q(20, 100)),
                           RMul(ret.mediumTerm.confidence, Q(35, 100))),
                      RMul(ret.longTerm.confidence, Q(45, 100)))

\* a result whose three timeframe scores and confidences are not all equal,
\* so that the blend depends on which weight goes with which timeframe
C6_Witness_DistinctTimeframes ==
  /\ Returned("calculateValuationRisk")
  /\ ret.shortTerm.overvaluationScore # ret.mediumTerm.overvaluationScore
  /\ ret.mediumTerm.overvaluationScore # ret.longTerm.overvaluationScore
  /\ ret.shortTerm.overvaluationScore # ret.longTerm.overvaluationScore
  /\ ret.mediumTerm.confidence # ret.longTerm.confidence

\* C7: when a refresh recomputes the result for an input that differs from the
\* previous one only in mvrv, a higher (or equal) mvrv gives a compositeScore
\* that is not lower, and a lower mvrv one that is not higher.
C7_MonotonicInMvrv ==
  [][(/\ pc = "return"
      /\ pc' = "refreshed"
      /\ op = "calculateValuationRisk"
      /\ [arg' EXCEPT !.mvrv = arg.mvrv] = arg)
       => /\ RLe(Val(arg.mvrv), Val(arg'.mvrv))
               => RLe(ret.compositeScore, ret'.compositeScore)
          /\ RLe(Val(arg'.mvrv), Val(arg.mvrv))
               => RLe(ret'.compositeScore, ret.compositeScore)]_vars

\* the result of a refresh with the highest mvrv, next to another indicator,
\* for a symbol of the category whose mvrvOverbought is lowest
C7_Witness_Refreshed ==
  /\ pc = "refreshed"
  /\ op = "calculateValuationRisk"
  /\ arg.symbol = "DOGE"
  /\ arg.mvrv = Some(Q(38, 10))
  /\ IsSome(arg.nvt)
  /\ RLt(Half, ret.compositeScore)

\* every metric of the three timeframes of a result, with its contribution
\* |normalizedScore - 0.5| x weight x confidence
PooledMetrics(result) ==
  UNION {{[metric |-> <<Assessment(result, timeframe).metrics[i].name, timeframe>>,
           contribution |-> Contribution(Assessment(result, timeframe).metrics[i])] :
            i \in 1..Len(Assessment(result, timeframe).metrics)} :
           timeframe \in Timeframes}

DriverMetrics(drivers) == {drivers[i].metric : i \in 1..Len(drivers)}

\* C8: keyDrivers has at most 5 entries, is sorted in non-increasing order
\* of contribution, and no metric left out of it has a larger contribution than
\* a metric that is in it.
C8_TopFiveDrivers ==
  Returned("calculateValuationRisk")
    => /\ Len(ret.keyDrivers) <= 5
       /\ \A i \in 1..(Len(ret.keyDrivers) - 1) :
            RLe(ret.keyDrivers[i + 1].contribution, ret.keyDrivers[i].contribution)
       /\ \A p \in PooledMetrics(ret) :
            p.metric \notin DriverMetrics(ret.keyDrivers)
              => \A i \in 1..Len(ret.keyDrivers) :
                   RLe(p.contribution, ret.keyDrivers[i].contribution)

\* a result with more than five metrics, one of the later ones among the drivers
C8_Witness_MoreThanFive ==
  /\ Returned("calculateValuationRisk")
  /\ Cardinality(PooledMetrics(ret)) > 5
  /\ Len(ret.keyDrivers) = 5
  /\ <<"mvrv", "long">> \in DriverMetrics(ret.keyDrivers)
  /\ RLt(ret.keyDrivers[5].contribution, ret.keyDrivers[1].contribution)

\* the <<action, urgency>> of the bands, for a score and the number of key
\* drivers that are bearish and of high severity
BandRecommendation(score, bearishHigh) ==
  CASE RLt(score, Pct(15)) -> <<"ACCUMULATE", "high">>
    [] RLe(Pct(15), score) /\ RLt(score, Pct(25)) -> <<"ACCUMULATE", "medium">>
    [] RLe(Pct(25), score) /\ RLt(score, Pct(45)) -> <<"ACCUMULATE", "low">>
    [] RLe(Pct(45), score) /\ RLt(score, Pct(60)) -> <<"HOLD", "low">>
    [] RLe(Pct(60), score) /\ RLt(score, Pct(75)) ->
         <<"REDUCE", IF bearishHigh >= 2 THEN "high" ELSE "medium">>
    [] RLe(Pct(75), score) -> <<"EXIT", "high">>

BearishHigh(drivers) ==
  Cardinality({i \in 1..Len(drivers) :
                 drivers[i].direction = "bearish" /\ drivers[i].severity = "high"})

\* C9: the recommendation follows the bands of the score: below 0.15
\* ACCUMULATE/high, below 0.25 ACCUMULATE/medium, below 0.45 ACCUMULATE/low,
\* below 0.60 HOLD/low, below 0.75 REDUCE with urgency high when at least two
\* key drivers are bearish and of high severity and medium otherwise, and from
\* 0.75 on EXIT/high; both when generateRecommendation is called and in the
\* recommendation of a result, for its compositeScore and keyDrivers.
C9_RecommendationBands ==
  /\ Returned("generateRecommendation")
       => <<ret.action, ret.urgency>>
            = BandRecommendation(arg.score, BearishHigh(arg.drivers))
  /\ Returned("calculateValuationRisk")
       => <<ret.recommendation.action, ret.recommendation.urgency>>
            = BandRecommendation(ret.compositeScore, BearishHigh(ret.keyDrivers))

\* REDUCE escalated to high by exactly two bearish high-severity drivers
C9_Witness_ReduceEscalated ==
  /\ Returned("generateRecommendation")
  /\ arg.score = Pct(60)
  /\ BearishHigh(arg.drivers) = 2
  /\ ret.action = "REDUCE"
  /\ ret.urgency = "high"

\* C10: for every category, analyzeMVRVValuation gives 0 below the category's
\* mvrvOversold, a score in [0.6, 0.9] for mvrv from 2.5 up to the category's
\* mvrvOverbought, and a score in [0.9, 1.0] for every mvrv at or above the
\* category's mvrvOverbought.
C10_CategoryMapping ==
  Returned("analyzeMVRVValuation")
    => /\ RLt(arg.mvrv, CATEGORY_VALUATION_THRESHOLDS[arg.category].mvrvOversold)
            => ret.normalizedScore = Zero
       /\ (/\ RLe(Q(25, 10), arg.mvrv)
           /\ RLe(arg.mvrv, CATEGORY_VALUATION_THRESHOLDS[arg.category].mvrvOverbought))
            => RLe(Pct(60), ret.normalizedScore) /\ RLe(ret.normalizedScore, Pct(90))
       /\ RLe(CATEGORY_VALUATION_THRESHOLDS[arg.category].mvrvOverbought, arg.mvrv)
            => RLe(Pct(90), ret.normalizedScore) /\ RLe(ret.normalizedScore, One)

\* C11: getAssetCategory returns one of the four categories for every
\* string: core for BTC and ETH, major for XRP, ADA and LINK, growth for SOL,
\* AVAX, DOT and MATIC, speculative for DOGE and for every symbol that is not
\* in the table.
C11_CategoryTotal ==
  Returned("getAssetCategory")
    => /\ ret \in {"core", "major", "growth", "speculative"}
       /\ arg.symbol \in {"BTC", "ETH"} => ret = "core"
       /\ arg.symbol \in {"XRP", "ADA", "LINK"} => ret = "major"
       /\ arg.symbol \in {"SOL", "AVAX", "DOT", "MATIC"} => ret = "growth"
       /\ arg.symbol \notin {"BTC", "ETH", "XRP", "ADA", "LINK", "SOL", "AVAX",
                             "DOT", "MATIC"}
            => ret = "speculative"

\* the category of a name that every object literal inherits
C11_Witness_InheritedName ==
  /\ Returned("getAssetCategory")
  /\ arg.symbol = "toString"
  /\ ret = "speculative"

\* clamp(2.75 + beta x (v - 2.75), 0.5, 5.0)
ClampedBetaShift(v, beta) ==
  RMax(Q(5, 10),
       RMin(Int2Q(5), RAdd(Q(275, 100), RMul(beta, RSub(v, Q(275, 100))))))

\* the beta of the category of a symbol: 1.0 core, 1.3 major, 1.6 growth and
\* 2.0 speculative
CategoryBeta(symbol) ==
  CASE getAssetCategory(symbol) = "core" -> Q(10, 10)
    [] getAssetCategory(symbol) = "major" -> Q(13, 10)
    [] getAssetCategory(symbol) = "growth" -> Q(16, 10)
    [] getAssetCategory(symbol) = "speculative" -> Q(20, 10)

C12_ExtremeScenarioPreservation ==
  (/\ Returned("calculateRecommendedCashAllocation")
   /\ arg.fearGreed = Some(Int2Q(90))
   /\ arg.mvrv = Some(Q(45, 10))
   /\ arg.kimchiPremium = Some(Int2Q(12))
   /\ arg.exchangeFlow = Some(Int2Q(15000))
   /\ arg.vix = Some(Int2Q(45))
   /\ CashSupplied(arg) = {"fearGreed", "mvrv", "kimchiPremium", "exchangeFlow", "vix"})
    => ret.riskLevel = "PRESERVATION" /\ ret.recommendedCash = Int2Q(55)

\* the cash and the level the thresholds give a returned score
ScoreBucket(score) ==
  CASE RLe(score, Int2Q(25)) -> <<Int2Q(10), "AGGRESSIVE">>
    [] RLt(Int2Q(25), score) /\ RLe(score, Int2Q(40)) -> <<Int2Q(20), "GROWTH">>
    [] RLt(Int2Q(40), score) /\ RLe(score, Int2Q(55)) -> <<Int2Q(25), "BALANCED">>
    [] RLt(Int2Q(55), score) /\ RLe(score, Int2Q(70)) -> <<Int2Q(35), "CAUTIOUS">>
    [] RLt(Int2Q(70), score) /\ RLe(score, Int2Q(85)) -> <<Int2Q(45), "DEFENSIVE">>
    [] RLt(Int2Q(85), score) -> <<Int2Q(55), "PRESERVATION">>

\* C13: in every CashRecommendation the returned score and the returned
\* bucket agree with the thresholds: score <= 25 gives 10/AGGRESSIVE, <= 40
\* 20/GROWTH, <= 55 25/BALANCED, <= 70 35/CAUTIOUS, <= 85 45/DEFENSIVE, and a
\* score above 85 gives 55/PRESERVATION.
C13_ScoreAgreesWithBucket ==
  Returned("calculateRecommendedCashAllocation")
    => <<ret.recommendedCash, ret.riskLevel>> = ScoreBucket(ret.score)

\* C14: for every combination of present and absent indicators the score is
\* in [0, 100], recommendedCash is one of 10, 20, 25, 35, 45, 55, and riskLevel
\* goes with it as 10-AGGRESSIVE, 20-GROWTH, 25-BALANCED, 35-CAUTIOUS,
\* 45-DEFENSIVE, 55-PRESERVATION.
C14_CashRecommendationShape ==
  Returned("calculateRecommendedCashAllocation")
    => /\ RLe(Zero, ret.score) /\ RLe(ret.score, Int2Q(100))
       /\ <<ret.recommendedCash, ret.riskLevel>>
            \in {<<Int2Q(10), "AGGRESSIVE">>, <<Int2Q(20), "GROWTH">>,
                 <<Int2Q(25), "BALANCED">>, <<Int2Q(35), "CAUTIOUS">>,
                 <<Int2Q(45), "DEFENSIVE">>, <<Int2Q(55), "PRESERVATION">>}

\* a recommendation of the highest bucket from an input that lacks a base
\* indicator and carries nvt
C14_Witness_Preservation ==
  /\ Returned("calculateRecommendedCashAllocation")
  /\ arg.kimchiPremium = None
  /\ IsSome(arg.nvt)
  /\ ret.riskLevel = "PRESERVATION"
  /\ ret.recommendedCash = Int2Q(55)

\* C15: with no indicator at all calculateRecommendedCashAllocation returns
\* riskLevel BALANCED with recommendedCash 25.
C15_EmptyInputBalanced ==
  Returned("calculateRecommendedCashAllocation") /\ CashSupplied(arg) = {}
    => ret.riskLevel = "BALANCED" /\ ret.recommendedCash = Int2Q(25)

\* the recommendation for the empty input, all six base indicators analysed
\* from their defaults
C15_Witness_EmptyInput ==
  /\ Returned("calculateRecommendedCashAllocation")
  /\ CashSupplied(arg) = {}
  /\ Len(ret.breakdown) = 6
  /\ ret.score = Int2Q(53)

\* the medium-term assessment of MVRV 1.8, NVT 55, price 50000, ma50 48000
\* and ma200 40000 for category core has returned
ScenarioAssessed ==
  /\ Returned("calculateTimeframeAssessment")
  /\ arg.timeframe = "medium"
  /\ arg.category = "core"
  /\ arg.input.currentPrice = Int2Q(50000)
  /\ arg.input.mvrv = Some(Q(18, 10))
  /\ arg.input.nvt = Some(Int2Q(55))
  /\ arg.input.ma50 = Some(Int2Q(48000))
  /\ arg.input.ma200 = Some(Int2Q(40000))

\* C17 as stated: for MVRV 1.8, NVT 55, currentPrice 50000, ma50 48000, ma200
\* 40000 and category core, the medium-term overvaluationScore lies between
\* 0.45 and 0.55.
C17_ScenarioBetween45And55 ==
  ScenarioAssessed
    => /\ RLe(Pct(45), ret.overvaluationScore)
       /\ RLe(ret.overvaluationScore, Pct(55))

\* C17 as amended: for that input the medium-term overvaluationScore is
\* 0.23955 / 0.55 (about 0.4355), which lies between 0.40 and 0.55, in the
\* ELEVATED bucket.
C17_ScenarioBetween40And55 ==
  ScenarioAssessed
    => /\ ret.overvaluationScore = RDiv(Q(23955, 100000), Pct(55))
       /\ RLe(Pct(40), ret.overvaluationScore)
       /\ RLe(ret.overvaluationScore, Pct(55))
       /\ ret.riskLevel = "ELEVATED"

\* the scenario assessed from its three medium-term metrics
C17_Witness_Scenario ==
  /\ ScenarioAssessed
  /\ Len(ret.metrics) = 3
  /\ ret.confidence = One

\* C18: getVolatilityAdjustedThreshold returns the tolerance of the symbol's
\* category, 3.0 for core, 2.5 for major, 2.0 for growth and 1.5 for
\* speculative, so 1.5 for every symbol that is not in the table, and always
\* one of these four values.
C18_ThresholdOfCategory ==
  Returned("getVolatilityAdjustedThreshold")
    => /\ ret \in {Q(30, 10), Q(25, 10), Q(20, 10), Q(15, 10)}
       /\ arg.symbol \in {"BTC", "ETH"} => ret = Q(30, 10)
       /\ arg.symbol \in {"XRP", "ADA", "LINK"} => ret = Q(25, 10)
       /\ arg.symbol \in {"SOL", "AVAX", "DOT", "MATIC"} => ret = Q(20, 10)
       /\ arg.symbol = "DOGE" => ret = Q(15, 10)
       /\ arg.symbol \notin DOMAIN ASSET_CHARACTERISTICS => ret = Q(15, 10)

\* the threshold of a symbol that is not in the table
C18_Witness_Unmapped ==
  /\ Returned("getVolatilityAdjustedThreshold")
  /\ arg.symbol = "PEPE"
  /\ ret = Q(15, 10)

\* the sum of the weights of a timeframe's table
RECURSIVE SumOver(_, _)
SumOver(weights, names) ==
  IF names = {} THEN Zero
  ELSE LET name == CHOOSE x \in names : TRUE
       IN RAdd(weights[name], SumOver(weights, names \ {name}))

\* the metric names of a metrics list
MetricNames(metrics) == {metrics[i].name : i \in DOMAIN metrics}

\* the metrics weighted in the timeframe whose input fields are all supplied
PresentMetrics(timeframe, input) ==
  {name \in DOMAIN TIMEFRAME_WEIGHTS[timeframe] :
     MetricInputs[name] \subseteq Supplied(input)}

\* C19: for each timeframe, the metrics list of the assessment holds exactly
\* the metrics that have a weight in the timeframe's table and whose input is
\* present, each at most once; each listed metric carries the table weight
\* and not the normalizer's 0; the weights of each table add up to 1.
C19_MetricsAreWeightedAndPresent ==
  \A timeframe \in Timeframes :
    /\ SumOver(TIMEFRAME_WEIGHTS[timeframe], DOMAIN TIMEFRAME_WEIGHTS[timeframe]) = One
    /\ Returned("calculateValuationRisk")
         => LET metrics == Assessment(ret, timeframe).metrics
            IN /\ MetricNames(metrics) = PresentMetrics(timeframe, arg)
               /\ Cardinality(MetricNames(metrics)) = Len(metrics)
               /\ \A i \in DOMAIN metrics :
                    /\ metrics[i].weight = TIMEFRAME_WEIGHTS[timeframe][metrics[i].name]
                    /\ metrics[i].weight # Zero

\* the normalizedScores of a metrics list
NormalizedScores(metrics) == {metrics[i].normalizedScore : i \in DOMAIN metrics}

\* some metric of the list enters the weighted sums with a confidence above 0
HasContributingMetric(metrics) ==
  \E i \in DOMAIN metrics : RLt(Zero, metrics[i].confidence)

\* C20: the overvaluationScore of a timeframe is a weighted average of its
\* metrics: whenever at least one metric contributes, it is no smaller than
\* the smallest and no larger than the largest normalizedScore of the
\* metrics of that assessment.
C20_ScoreWithinMetricRange ==
  \A timeframe \in Timeframes :
    Returned("calculateValuationRisk")
      /\ HasContributingMetric(Assessment(ret, timeframe).metrics)
      => LET assessment == Assessment(ret, timeframe)
         IN /\ \E s \in NormalizedScores(assessment.metrics) :
                 RLe(s, assessment.overvaluationScore)
            /\ \E s \in NormalizedScores(assessment.metrics) :
                 RLe(assessment.overvaluationScore, s)

\* the input record with ath and cycleLow left out
WithoutCycle(input) == [input EXCEPT !.ath = None, !.cycleLow = None]

\* C21: a metric whose normalizer took the degraded branch has no influence
\* on the score: the long-term overvaluationScore of an input that supplies
\* ath and cycleLow with ath <= cycleLow equals the long-term
\* overvaluationScore of the same input with ath and cycleLow absent.
C21_DegradedCycleHasNoInfluence ==
  Returned("calculateValuationRisk")
    /\ IsSome(arg.ath) /\ IsSome(arg.cycleLow)
    /\ RLe(Val(arg.ath), Val(arg.cycleLow))
    => ret.longTerm.overvaluationScore
         = calculateTimeframeAssessment("long", WithoutCycle(arg),
                                        getAssetCategory(arg.symbol)).overvaluationScore

\* the direction and the severity the driver rules give a metric
DirectionOf(normalizedScore) ==
  IF RLt(normalizedScore, Pct(40)) THEN "bullish"
  ELSE IF RLt(Pct(60), normalizedScore) THEN "bearish"
  ELSE "neutral"

SeverityOf(contribution) ==
  IF RLt(Pct(15), contribution) THEN "high"
  ELSE IF RLt(Pct(8), contribution) THEN "medium"
  ELSE "low"

\* the driver is the one the rules derive from metric m of the timeframe
DerivedFrom(driver, m, timeframe) ==
  /\ driver.metric = <<m.name, timeframe>>
  /\ driver.contribution
       = RMul(RMul(RAbs(RSub(m.normalizedScore, Half)), m.weight), m.confidence)
  /\ driver.direction = DirectionOf(m.normalizedScore)
  /\ driver.severity = SeverityOf(driver.contribution)
  /\ driver.reason = m.reason

\* C22: every key driver is derived from one pooled metric, with
\* contribution |normalizedScore - 0.5| x weight x confidence, direction
\* bullish below 0.4, bearish above 0.6 and neutral otherwise (0.4 and 0.6
\* included), severity high above 0.15, medium above 0.08 and low otherwise.
C22_DriversDerivedFromMetrics ==
  Returned("calculateValuationRisk")
    => \A k \in DOMAIN ret.keyDrivers :
         \E timeframe \in Timeframes :
           \E i \in DOMAIN Assessment(ret, timeframe).metrics :
             DerivedFrom(ret.keyDrivers[k], Assessment(ret, timeframe).metrics[i],
                         timeframe)

\* a neutral driver whose metric scores exactly 0.4 or 0.6, next to a driver
\* of medium severity
C22_Witness_BoundaryNeutral ==
  /\ Returned("calculateValuationRisk")
  /\ \E k \in DOMAIN ret.keyDrivers :
       /\ ret.keyDrivers[k].direction = "neutral"
       /\ \E timeframe \in Timeframes :
            \E i \in DOMAIN Assessment(ret, timeframe).metrics :
              /\ DerivedFrom(ret.keyDrivers[k],
                             Assessment(ret, timeframe).metrics[i], timeframe)
              /\ Assessment(ret, timeframe).metrics[i].normalizedScore
                   \in {Pct(40), Pct(60)}
  /\ \E k \in DOMAIN ret.keyDrivers : ret.keyDrivers[k].severity = "medium"

\* every metric of the three timeframes has its normalizedScore in [0, 1]
ScoresInUnit(result) ==
  \A timeframe \in Timeframes :
    \A i \in DOMAIN Assessment(result, timeframe).metrics :
      InUnit(Assessment(result, timeframe).metrics[i].normalizedScore)

\* C23: on every input whose normalized scores stay in [0, 1], every key
\* driver's contribution is at most 0.14, no driver has severity high, and a
\* REDUCE recommendation has urgency medium.
C23_NoHighSeverity ==
  Returned("calculateValuationRisk") /\ ScoresInUnit(ret)
    => /\ \A k \in DOMAIN ret.keyDrivers :
            /\ RLe(ret.keyDrivers[k].contribution, Pct(14))
            /\ ret.keyDrivers[k].severity # "high"
       /\ ret.recommendation.action = "REDUCE"
            => ret.recommendation.urgency = "medium"

\* a REDUCE result whose strongest driver is bearish with a contribution
\* above 0.12: urgency stays medium
C23_Witness_ReduceMedium ==
  /\ Returned("calculateValuationRisk")
  /\ ScoresInUnit(ret)
  /\ ret.recommendation.action = "REDUCE"
  /\ ret.recommendation.urgency = "medium"
  /\ Len(ret.keyDrivers) > 0
  /\ RLt(Pct(12), ret.keyDrivers[1].contribution)
  /\ ret.keyDrivers[1].direction = "bearish"
  /\ ret.keyDrivers[1].severity = "medium"

\* an optional reference value scaled by a factor, absent when it is absent
Scaled(o, factor) == IF IsSome(o) THEN Some(RMul(Val(o), factor)) ELSE None

\* C24: estimateAltcoinValuation passes the reference fearGreed and
\* kimchiPremium through unchanged, sets nvt = refNvt x (1 + (beta - 1) x 0.3)
\* and exchangeNetflow = refNetflow x beta for the beta of the target's
\* category, leaves an estimated field absent when the reference field is
\* absent, and does not modify the reference record.
C24_EstimatedFields ==
  /\ [](Returned("estimateAltcoinValuation")
          => /\ ret.fearGreed = arg.btcData.fearGreed
             /\ ret.kimchiPremium = arg.btcData.kimchiPremium
             /\ ret.nvt
                  = Scaled(arg.btcData.nvt,
                           RAdd(One, RMul(RSub(CategoryBeta(arg.symbol), One),
                                          Q(3, 10))))
             /\ ret.exchangeNetflow
                  = Scaled(arg.btcData.exchangeNetflow, CategoryBeta(arg.symbol))
             /\ IsSome(ret.mvrv) <=> IsSome(arg.btcData.mvrv))
  /\ [][op = "estimateAltcoinValuation" => arg'.btcData = arg.btcData]_vars

\* the estimate for a speculative symbol from a reference with nvt 80, netflow
\* 6000 and fearGreed 85, without kimchiPremium
C24_Witness_SpeculativeScaled ==
  /\ Returned("estimateAltcoinValuation")
  /\ arg.symbol = "DOGE"
  /\ arg.btcData.nvt = Some(Int2Q(80))
  /\ ret.nvt = Some(Int2Q(104))
  /\ ret.exchangeNetflow = Some(Int2Q(12000))
  /\ ret.fearGreed = Some(Int2Q(85))
  /\ arg.btcData.kimchiPremium = None
  /\ ret.kimchiPremium = None

\* the metrics an assessed fallback input may carry: those of the moving
\* averages the hook added and, when it was supplied, of fearGreed
FallbackMetrics(args) ==
  (IF IsSome(args.fearGreed) THEN {"fearGreed"} ELSE {})
    \cup (IF IsSome(args.assetMa50) THEN {"priceVsMa50"} ELSE {})
    \cup (IF IsSome(args.assetMa200) THEN {"priceVsMa200"} ELSE {})

\* C25: an indicator that was not supplied is never replaced by a substituted
\* value: without a fearGreed the record getDefaultAltcoinValuation returns
\* carries only symbol and currentPrice, and the result calculateValuationRisk
\* computes from it has no metric for an absent indicator.
C25_FallbackSubstitutesNothing ==
  op = "getDefaultAltcoinValuation" /\ arg.fearGreed = None
    => /\ pc = "return" => Supplied(ret) = {}
       /\ pc = "assessed"
            => \A timeframe \in Timeframes :
                 MetricNames(Assessment(ret, timeframe).metrics)
                   \subseteq FallbackMetrics(arg)

Engines == {"calculateValuationRisk", "calculateRecommendedCashAllocation"}

\* C26: the engine is deterministic and has no shared mutable state: a second
\* call of calculateValuationRisk or of calculateRecommendedCashAllocation
\* with an input equal to the first one's returns an equal result record, and
\* no call modifies its input record.
C26_EqualInputsEqualResults ==
  [][(op \in Engines)
       => ((pc = "call" => arg' = arg)
           /\ ((pc = "return" /\ pc' = "refreshed" /\ arg' = arg) => ret' = ret))]_vars

\* the sum of one numeric field over the entries of a breakdown
RECURSIVE SumField(_, _)
SumField(entries, field) ==
  IF entries = <<>> THEN Zero
  ELSE RAdd(SumField(SubSeq(entries, 1, Len(entries) - 1), field),
            entries[Len(entries)][field])

WithoutNvt(indicators) == [indicators EXCEPT !.nvt = None]

\* C28: supplying nvt to calculateRecommendedCashAllocation changes neither
\* score nor recommendedCash nor riskLevel against the same input without
\* nvt; it only adds one analyses entry and one breakdown entry for nvt, the
\* latter with weight 0 and contribution 0.
C28_NvtHasNoEffect ==
  Returned("calculateRecommendedCashAllocation") /\ IsSome(arg.nvt)
    => /\ ret.score = calculateRecommendedCashAllocation(WithoutNvt(arg)).score
       /\ ret.recommendedCash
            = calculateRecommendedCashAllocation(WithoutNvt(arg)).recommendedCash
       /\ ret.riskLevel = calculateRecommendedCashAllocation(WithoutNvt(arg)).riskLevel
       /\ Len(ret.breakdown) = 7
       /\ SubSeq(ret.breakdown, 1, 6)
            = calculateRecommendedCashAllocation(WithoutNvt(arg)).breakdown
       /\ SubSeq(ret.analyses, 1, 6)
            = calculateRecommendedCashAllocation(WithoutNvt(arg)).analyses
       /\ ret.analyses[7].key = "nvt"
       /\ ret.breakdown[7].indicator = "nvt"
       /\ ret.breakdown[7].weight = Zero
       /\ ret.breakdown[7].contribution = Zero

\* an nvt of 100, scored 70 or more, next to indicators that give GROWTH
C28_Witness_HighNvtGrowth ==
  /\ Returned("calculateRecommendedCashAllocation")
  /\ arg.nvt = Some(Int2Q(100))
  /\ RLe(Int2Q(70), ret.breakdown[7].score)
  /\ ret.riskLevel = "GROWTH"
  /\ ret.recommendedCash = Int2Q(20)

\* the APIs requested so far, in order
ApisTried == [i \in DOMAIN requests |-> requests[i].api]

\* the request to the API came back without a result
ReturnedNull(api) ==
  \E i \in DOMAIN requests :
    requests[i].api = api /\ requests[i].outcome \in {"null", "error"}

\* the first step of fetchSentiment when `fresh` tells whether the cache entry
\* counts: a fresh entry is returned as dataSource 'cache' and no API is
\* called; otherwise Santiment is requested when its key is configured
StartRule(fresh) ==
  op = "fetchSentiment" /\ pc = "call"
    => IF fresh
         THEN pc' = "return" /\ ret'.dataSource = "cache" /\ requests' = <<>>
         ELSE arg.santimentKey => pc' = "santiment" /\ ApisTried' = <<"santiment">>

\* the order of the sources behind the cache: LunarCrush only when it is
\* configured and Santiment is unavailable or returned null, the estimate only
\* when no configured API gave a result, and a call that is not at an await
\* has returned a result
OrderRule ==
  op = "fetchSentiment"
    => /\ ApisTried \in {<<>>, <<"santiment">>, <<"lunarcrush">>,
                         <<"santiment", "lunarcrush">>}
       /\ ApisTried # <<>> /\ ApisTried[1] = "santiment" => arg.santimentKey
       /\ (\E i \in DOMAIN requests : requests[i].api = "lunarcrush")
            => /\ arg.lunarKey
               /\ ~arg.santimentKey \/ ReturnedNull("santiment")
       /\ pc \in {"call", "santiment", "lunarcrush", "return"}
       /\ pc = "return"
            => /\ ret.dataSource \in {"cache"} \cup Sources
               /\ ret.dataSource = "cache" => requests = <<>>
               /\ ret.dataSource = "estimated"
                    => /\ arg.santimentKey => ReturnedNull("santiment")
                       /\ arg.lunarKey => ReturnedNull("lunarcrush")
               /\ ret.dataSource = "santiment"
                    => requests = <<[api |-> "santiment", outcome |-> "data"]>>
               /\ ret.dataSource = "lunarcrush"
                    => requests[Len(requests)]
                         = [api |-> "lunarcrush", outcome |-> "data"]
       /\ pc # "return" => ENABLED (FetchSentiment \/ SantimentSettles \/ LunarCrushSettles)

\* C29 as stated: fetchSentiment resolves its sources in strict priority
\* order: a cache entry younger than 15 minutes is returned as dataSource
\* 'cache' without calling any API; otherwise Santiment is tried when its key
\* is configured, LunarCrush only if Santiment is unavailable or returned
\* null, the estimate only if both returned null; every call resolves to a
\* result and never rejects.
C29_YoungerThanTtlServed ==
  /\ [][StartRule(cache # None /\ clock - Val(cache).fetchedAt < CACHE_TTL)]_vars
  /\ []OrderRule

\* C29 amended: the same with a cache entry that is at most 15 minutes old.
C29_NoOlderThanTtlServed ==
  /\ [][StartRule(cache # None /\ clock - Val(cache).fetchedAt <= CACHE_TTL)]_vars
  /\ []OrderRule

\* an entry exactly 15 minutes old returned from the cache although the
\* Santiment key is configured
C29_Witness_ExactlyTtl ==
  /\ op = "fetchSentiment"
  /\ pc = "return"
  /\ arg.santimentKey
  /\ cache # None
  /\ clock - Val(cache).fetchedAt = CACHE_TTL
  /\ ret.dataSource = "cache"
  /\ requests = <<>>

\* the fetchAllMarketData requests that have not settled
InFlight == {i \in DOMAIN requests : requests[i].outcome = "pending"}

\* C30: in useMarketData at most one fetchAllData request is in flight at any
\* time, whatever the order of the initial call, the interval ticks and the
\* refetch calls: a call made while one is in flight, or less than 3000 ms
\* after the last accepted call, returns without fetching, and the in-flight
\* flag is cleared when the accepted fetch settles, with data or with an
\* error, so that a later call is not blocked by it.
C30_AtMostOneInFlight ==
  /\ [](op = "useMarketData"
          => /\ Cardinality(InFlight) <= 1
             /\ isFetchingRef <=> InFlight # {})
  /\ [][(op = "useMarketData")
          => /\ (isFetchingRef \/ clock - lastFetchRef < 3000)
                  => requests' = requests \/ Len(requests') = Len(requests)
             /\ (Len(requests') > Len(requests))
                  => ~isFetchingRef /\ clock - lastFetchRef >= 3000
             /\ (Len(requests') = Len(requests) /\ requests' # requests)
                  => ~isFetchingRef'
             /\ (ret' # ret /\ ~isFetchingRef /\ clock - lastFetchRef >= 3000)
                  => Len(requests') > Len(requests)]_vars

\* a second fetch accepted after the first one failed, with a refetch in
\* between that was turned away
C30_Witness_SecondFetch ==
  /\ op = "useMarketData"
  /\ Len(requests) = 2
  /\ requests[1].outcome = "error"
  /\ requests[2].outcome = "pending"
  /\ isFetchingRef
  /\ lastFetchRef = clock
  /\ ret.fetched

====
